---------------------------- MODULE Spec2Model ----------------------------
(***************************************************************************)
(* Stacklook (KernelShark plugin): the per-stream plugin context, the      *)
(* collection of sched_switch / sched_waking entries at load time, the     *)
(* one-time kernel-stack search, the draw handler with its eligibility     *)
(* check, and the stack-trace preview parser of the buttons.               *)
(*                                                                         *)
(* Conventions                                                             *)
(*  - A kshark_entry pointer is the position of the entry in its stream's  *)
(*    entry array (1..Len); NULLPTR (0) is the null pointer.  The int64    *)
(*    field of a collected record holds such a pointer, or FIELD_INIT      *)
(*    (-1), the value _select_events stores: cast to a pointer it is       *)
(*    neither null nor the address of an entry.                            *)
(*  - A std::string is a sequence of one-character strings; positions are  *)
(*    0-based as in C++.  size_t values of 2^63 and above are written as   *)
(*    negative integers (two's complement), so npos is -1 and the          *)
(*    wrap-around of size_t arithmetic is kept.                            *)
(***************************************************************************)
EXTENDS Integers, Sequences, FiniteSets, TLC

VARIABLES
    globals,    \* stacklook.c statics: sched_switch_id, kstack_id, sched_wake_id
    ctx,        \* __context_handler: stream id -> plugin_stacklook_ctx or NoCtx
    entries,    \* host: the loaded entries of each stream, in load order
    phase,      \* host: "closed" | "loading" | "shown" per stream
    cfg,        \* the SlConfig singleton
    drawn,      \* the last draw_stacklook_objects call and the buttons it made
    scans,      \* history: runs of search_for_kstacks since the stream's attach
    ui,         \* the last hover / double click on a button and what it showed
    hover,      \* the last preview labels set by a hover, with the event name
    walk,       \* the last get_kstack_entry call: the owner and the result
    info,       \* host: the recorded stack kshark_get_info prints for the
                \* kernel stack entry under the mouse
    hit,        \* a button's outline triangle, and the last distance call
    pid_colors, \* host: the colour table of the GL widget (getPidColors)
    button,     \* the colours of the last button _make_sl_button made
    evinfo,     \* host: the text kshark_get_info prints for the event entry
                \* of the button under the mouse
    view,       \* the last SlDetailedView opened, or preview labels set
    line,       \* a text handed to the functions of the preview parser
    parsed,     \* the last call of a parser function on line, and its result
    window      \* the SlConfigWindow: its controls, whether it is shown

\* The variables only the specifications of single functions write.
callvars == <<hit, pid_colors, button, evinfo, view, line, parsed, window>>

vars == <<globals, ctx, entries, phase, cfg, drawn, scans, ui, hover, walk, info,
          callvars>>

---------------------------------------------------------------------------
(* Bounds of the model *)

\* Entries the host loads, over all streams together.
MaxEntries == 3

---------------------------------------------------------------------------
(* Host data: streams, event ids, entries *)

Streams == {0, 1}
Pids == {1, 2}
Cpus == {0, 1}

SWITCH_NAME == "sched/sched_switch"
WAKING_NAME == "sched/sched_waking"
KSTACK_NAME == "ftrace/kernel_stack"
OTHER_NAME == "ftrace/function"
EventNames == {SWITCH_NAME, WAKING_NAME, KSTACK_NAME, OTHER_NAME}

\* kshark_find_event_id(stream, name): each trace file numbers its events itself.
kshark_find_event_id(sd, name) ==
    IF sd = 0
    THEN CASE name = SWITCH_NAME -> 1
           [] name = WAKING_NAME -> 2
           [] name = KSTACK_NAME -> 3
           [] OTHER -> 4
    ELSE CASE name = SWITCH_NAME -> 5
           [] name = WAKING_NAME -> 6
           [] name = KSTACK_NAME -> 3
           [] OTHER -> 4

StreamEventIds(sd) == {kshark_find_event_id(sd, n) : n \in EventNames}

\* kshark_get_event_name(entry): the name of the entry's event id in its stream.
kshark_get_event_name(sd, e) ==
    CHOOSE n \in EventNames : kshark_find_event_id(sd, n) = e.event_id

\* kshark_filter_masks bits of kshark_entry::visible.
GRAPH_VIEW == "KS_GRAPH_VIEW_FILTER_MASK"
EVENT_VIEW == "KS_EVENT_VIEW_FILTER_MASK"
UNTOUCHED == "KS_PLUGIN_UNTOUCHED_MASK"
AllMasks == {GRAPH_VIEW, EVENT_VIEW, UNTOUCHED}

\* A kshark_entry: visible is the set of mask bits that are set; tpid is what
\* kshark_get_pid(entry) reads from the trace record (pid itself while the
\* entry is untouched by plugins).
EntryOf(ev, p, c, vis, tp) ==
    [event_id |-> ev, pid |-> p, cpu |-> c, visible |-> vis, tpid |-> tp]

\* Entries the loader produces in the stream life cycle: the scheduler
\* events and kernel stacks, untouched, visible in both views, recorded on
\* CPU 0.
LoadedNames == {SWITCH_NAME, WAKING_NAME, KSTACK_NAME}
LoadedEntries(sd) ==
    {EntryOf(kshark_find_event_id(sd, n), p, 0, AllMasks, p) :
        n \in LoadedNames, p \in Pids}

NULLPTR == 0
FIELD_INIT == -1

\* entry->next: the next entry loaded on the same CPU of the stream, or null.
NextEntry(ents, ix) ==
    LET later == {j \in (ix + 1)..Len(ents) : ents[j].cpu = ents[ix].cpu}
    IN  IF later = {} THEN NULLPTR
        ELSE CHOOSE j \in later : \A k \in later : j <= k

TotalEntries == Len(entries[0]) + Len(entries[1])

---------------------------------------------------------------------------
(* Plugin context (stacklook.h, stacklook.c) *)

NoCtx == [null |-> "ctx"]
NoContainer == [null |-> "container"]
Container(recs) == [data |-> recs]

\* The context KSHARK_PLOT_PLUGIN_INITIALIZER fills in.
NewCtx(sd, dc) ==
    [sswitch_event_id |-> kshark_find_event_id(sd, SWITCH_NAME),
     kstack_event_id |-> kshark_find_event_id(sd, KSTACK_NAME),
     swaking_event_id |-> kshark_find_event_id(sd, WAKING_NAME),
     kstacks_exist |-> FALSE,
     searched_for_kstacks |-> FALSE,
     collected_events |-> dc]

GlobalsInit == [sched_switch_id |-> 0, kstack_id |-> 0, sched_wake_id |-> 0]

---------------------------------------------------------------------------
(* Configuration (SlConfig.hpp, SlConfig.cpp) *)

HISTO_LIMIT_DEFAULT == 10000
DEPTH_DEFAULT == 3
WHITE == <<255, 255, 255>>
BLACK == <<0, 0, 0>>

\* Keys of SlConfig::_events_meta, in std::map order.
MetaNames == <<SWITCH_NAME, WAKING_NAME>>

\* SlConfig's member initialisers.
SlConfigInit ==
    [_histo_entries_limit |-> HISTO_LIMIT_DEFAULT,
     _default_btn_col |-> WHITE,
     _button_outline_col |-> BLACK,
     _use_task_colors |-> FALSE,
     _events_meta |-> [n \in {SWITCH_NAME, WAKING_NAME} |->
                          [allowed |-> TRUE, depth |-> DEPTH_DEFAULT]]]

get_histo_limit == cfg._histo_entries_limit

\* Mutant of get_stack_offset: a name without entry gets the default depth.
get_stack_offset_default_depth(evt_name) ==
    IF evt_name \notin DOMAIN cfg._events_meta THEN DEPTH_DEFAULT
    ELSE cfg._events_meta[evt_name].depth

\* SlConfig::get_stack_offset(evt_name)
get_stack_offset(evt_name) ==
    IF evt_name \notin DOMAIN cfg._events_meta THEN 0
    ELSE cfg._events_meta[evt_name].depth

\* SlConfig::is_event_allowed(entry)
is_event_allowed(sd, e) ==
    LET evt_name == kshark_get_event_name(sd, e)
    IN  IF evt_name \notin DOMAIN cfg._events_meta THEN FALSE
        ELSE cfg._events_meta[evt_name].allowed

\* (uint8_t)r, (uint8_t)g, (uint8_t)b of the components QColor::getRgb gives.
ToUint8s(col) ==
    [i \in 1..3 |-> col[i] % 256]

\* QSpinBox::setValue(val): the value the box holds afterwards.
HISTO_SPIN_MAX == 1000000000
DEPTH_MAX == 100000000
setValue(val, minimum, maximum) ==
    IF val < minimum THEN minimum ELSE IF val > maximum THEN maximum ELSE val

\* SlConfigWindow::update_cfg: the configuration after Apply, from the values
\* w of the window's controls (w.rows[i] are the controls evt_name_<i>,
\* evt_allowed_<i>, evt_depth_<i>).
update_cfg(w) ==
    [_histo_entries_limit |-> w.histo_limit,
     _default_btn_col |-> ToUint8s(w.def_btn_col),
     _button_outline_col |-> ToUint8s(w.btn_outline),
     _use_task_colors |-> w.task_col_btn,
     _events_meta |-> [n \in DOMAIN cfg._events_meta |->
         IF \E i \in 1..Len(w.rows) : i <= Cardinality(DOMAIN cfg._events_meta)
                                       /\ w.rows[i].name = n
         THEN LET i == CHOOSE j \in 1..Len(w.rows) : w.rows[j].name = n
              IN  [allowed |-> w.rows[i].allowed, depth |-> w.rows[i].depth]
         ELSE cfg._events_meta[n]]]

\* Mutant of load_cfg_values: the spin box of the histogram limit keeps the
\* value it has.
load_cfg_values_keeps_limit ==
    [histo_limit |-> window.controls.histo_limit,
     def_btn_col |-> cfg._default_btn_col,
     btn_outline |-> cfg._button_outline_col,
     task_col_btn |-> cfg._use_task_colors,
     rows |-> [i \in 1..Len(MetaNames) |->
                  [name |-> MetaNames[i],
                   allowed |-> cfg._events_meta[MetaNames[i]].allowed,
                   depth |-> cfg._events_meta[MetaNames[i]].depth]]]

\* SlConfigWindow::load_cfg_values: the controls as filled from the configuration.
load_cfg_values ==
    [histo_limit |-> setValue(cfg._histo_entries_limit, 0, HISTO_SPIN_MAX),
     def_btn_col |-> cfg._default_btn_col,
     btn_outline |-> cfg._button_outline_col,
     task_col_btn |-> cfg._use_task_colors,
     rows |-> [i \in 1..Len(MetaNames) |->
                  [name |-> MetaNames[i],
                   allowed |-> cfg._events_meta[MetaNames[i]].allowed,
                   depth |-> setValue(cfg._events_meta[MetaNames[i]].depth,
                                      0, DEPTH_MAX)]]]

\* The window after its construction (the constructor fills the controls
\* from the configuration, which has its initial values then); it is shown
\* by the menu entry only.  last is the last operation on the window,
\* edited whether a control was changed since the window was shown.
WindowInit ==
    [shown |-> FALSE, last |-> "constructed", edited |-> FALSE,
     controls |->
        [histo_limit |-> HISTO_LIMIT_DEFAULT,
         def_btn_col |-> WHITE,
         btn_outline |-> BLACK,
         task_col_btn |-> FALSE,
         rows |-> [i \in 1..Len(MetaNames) |->
                      [name |-> MetaNames[i], allowed |-> TRUE,
                       depth |-> DEPTH_DEFAULT]]]]

---------------------------------------------------------------------------
(* Collection of entries at load time (stacklook.c) *)

\* _select_events(stream, rec, entry): the context of the stream afterwards.
\* entry is the position of the new entry e.
_select_events(sd, entry, e) ==
    IF ctx[sd] = NoCtx THEN ctx[sd]
    ELSE IF ctx[sd].collected_events = NoContainer THEN ctx[sd]
    ELSE LET is_supported_event == \/ e.event_id = globals.sched_switch_id
                                   \/ e.event_id = globals.sched_wake_id
         IN  IF is_supported_event
             THEN [ctx[sd] EXCEPT !.collected_events.data =
                       Append(@, [entry |-> entry, field |-> FIELD_INIT])]
             ELSE ctx[sd]

\* kshark_register_event_handler(stream, sched_switch_id, ...) and
\* (stream, sched_wake_id, ...): the ids the handler was registered for are
\* the ones the initializer stored in the context.
HandlerRegistered(sd, e) ==
    /\ ctx[sd] # NoCtx
    /\ e.event_id \in {ctx[sd].sswitch_event_id, ctx[sd].swaking_event_id}

---------------------------------------------------------------------------
(* Kernel stack search (Stacklook.cpp) *)

\* The while loop of get_kstack_entry, from kstack_entry on.
RECURSIVE kstack_walk(_, _, _, _)
kstack_walk(ents, kstack_event_id, relevant_owner_pid, kstack_entry) ==
    LET is_kstack == ents[kstack_entry].event_id = kstack_event_id
        is_correct_task == relevant_owner_pid = ents[kstack_entry].pid
    IN  IF is_kstack /\ is_correct_task THEN kstack_entry
        ELSE LET next == NextEntry(ents, kstack_entry)
             IN  IF next = NULLPTR THEN NULLPTR
                 ELSE kstack_walk(ents, kstack_event_id, relevant_owner_pid, next)

\* Mutant of get_kstack_entry: the walk starts at the owner's next entry.
get_kstack_entry_after_owner(sd, kstack_owner) ==
    IF kstack_owner = NULLPTR THEN NULLPTR
    ELSE IF ctx[sd] = NoCtx THEN NULLPTR
    ELSE LET o == entries[sd][kstack_owner]
             relevant_owner_pid == IF UNTOUCHED \in o.visible THEN o.pid ELSE o.tpid
             next == NextEntry(entries[sd], kstack_owner)
         IN  IF next = NULLPTR THEN NULLPTR
             ELSE kstack_walk(entries[sd], ctx[sd].kstack_event_id,
                              relevant_owner_pid, next)

\* get_kstack_entry(kstack_owner); sd is kstack_owner->stream_id.
get_kstack_entry(sd, kstack_owner) ==
    IF kstack_owner = NULLPTR THEN NULLPTR
    ELSE IF ctx[sd] = NoCtx THEN NULLPTR
    ELSE LET o == entries[sd][kstack_owner]
             relevant_owner_pid == IF UNTOUCHED \in o.visible THEN o.pid ELSE o.tpid
         IN  kstack_walk(entries[sd], ctx[sd].kstack_event_id,
                         relevant_owner_pid, kstack_owner)

\* The turns of the while loop of get_kstack_entry, from kstack_entry on:
\* each turn moves to the next entry.
RECURSIVE kstack_walk_steps(_, _, _, _)
kstack_walk_steps(ents, kstack_event_id, relevant_owner_pid, kstack_entry) ==
    LET is_kstack == ents[kstack_entry].event_id = kstack_event_id
        is_correct_task == relevant_owner_pid = ents[kstack_entry].pid
    IN  IF is_kstack /\ is_correct_task THEN 0
        ELSE LET next == NextEntry(ents, kstack_entry)
             IN  IF next = NULLPTR THEN 1
                 ELSE 1 + kstack_walk_steps(ents, kstack_event_id,
                                            relevant_owner_pid, next)

\* The turns of the loop in one call of get_kstack_entry.
get_kstack_entry_steps(sd, kstack_owner) ==
    IF kstack_owner = NULLPTR THEN 0
    ELSE IF ctx[sd] = NoCtx THEN 0
    ELSE LET o == entries[sd][kstack_owner]
             relevant_owner_pid == IF UNTOUCHED \in o.visible THEN o.pid ELSE o.tpid
         IN  kstack_walk_steps(entries[sd], ctx[sd].kstack_event_id,
                               relevant_owner_pid, kstack_owner)

\* Mutant of search_for_kstacks_walks: the loop runs over the entries of the
\* stream, not over the records of the container.
search_for_kstacks_walks_all_entries(sd, dct) ==
    IF dct = NoContainer THEN <<>>
    ELSE [i \in 1..Len(entries[sd]) |->
             [owner |-> i, steps |-> get_kstack_entry_steps(sd, i)]]

\* The calls of get_kstack_entry the for loop of search_for_kstacks makes,
\* in order: the owner and the turns of the walk.
search_for_kstacks_walks(sd, dct) ==
    IF dct = NoContainer THEN <<>>
    ELSE [i \in 1..Len(dct.data) |->
             [owner |-> dct.data[i].entry,
              steps |-> get_kstack_entry_steps(sd, dct.data[i].entry)]]

\* Mutant of search_for_kstacks: each turn overwrites the return value, so
\* it tells of the last record only.
search_for_kstacks_last_only(sd, dct) ==
    IF dct = NoContainer THEN [found |-> FALSE, dct |-> dct]
    ELSE IF Len(dct.data) = 0 THEN [found |-> FALSE, dct |-> dct]
    ELSE LET size == Len(dct.data)
             kstack_entry == [i \in 1..size |-> get_kstack_entry(sd, dct.data[i].entry)]
         IN  [found |-> kstack_entry[size] # NULLPTR,
              dct |-> Container([i \in 1..size |->
                          IF kstack_entry[i] # NULLPTR
                          THEN [dct.data[i] EXCEPT !.field = kstack_entry[i]]
                          ELSE dct.data[i]])]

\* Mutant of search_for_kstacks: the entry found is not stored in the field.
search_for_kstacks_not_stored(sd, dct) ==
    IF dct = NoContainer THEN [found |-> FALSE, dct |-> dct]
    ELSE [found |-> \E i \in 1..Len(dct.data) :
                       get_kstack_entry(sd, dct.data[i].entry) # NULLPTR,
          dct |-> dct]

\* search_for_kstacks(dct): the return value and the container afterwards.
search_for_kstacks(sd, dct) ==
    IF dct = NoContainer THEN [found |-> FALSE, dct |-> dct]
    ELSE IF Len(dct.data) = 0 THEN [found |-> FALSE, dct |-> dct]
    ELSE LET size == Len(dct.data)
             kstack_entry == [i \in 1..size |-> get_kstack_entry(sd, dct.data[i].entry)]
         IN  [found |-> \E i \in 1..size : kstack_entry[i] # NULLPTR,
              dct |-> Container([i \in 1..size |->
                          IF kstack_entry[i] # NULLPTR
                          THEN [dct.data[i] EXCEPT !.field = kstack_entry[i]]
                          ELSE dct.data[i]])]

---------------------------------------------------------------------------
(* Draw handler (Stacklook.cpp) *)

KSHARK_CPU_DRAW == "KSHARK_CPU_DRAW"
KSHARK_TASK_DRAW == "KSHARK_TASK_DRAW"
KSHARK_OTHER_DRAW == "KSHARK_HOST_DRAW"
DrawActions == {KSHARK_CPU_DRAW, KSHARK_TASK_DRAW, KSHARK_OTHER_DRAW}

\* _check_function_general(entry, kstack_entry, ctx); c is the context.
_check_function_general(sd, entry, kstack_entry, c) ==
    IF entry = NULLPTR \/ kstack_entry = NULLPTR THEN FALSE
    ELSE LET e == entries[sd][entry]
             correct_event_id == \/ c.sswitch_event_id = e.event_id
                                 \/ c.swaking_event_id = e.event_id
             is_config_allowed == is_event_allowed(sd, e)
             is_visible_event == EVENT_VIEW \in e.visible
             is_visible_graph == GRAPH_VIEW \in e.visible
         IN  correct_event_id /\ is_config_allowed
             /\ is_visible_event /\ is_visible_graph

\* The check_func lambdas of draw_stacklook_objects on one record of the
\* container: kstack_ptr is the record's field cast to a pointer.
check_func(sd, c, draw_action, val, rec) ==
    LET entry == rec.entry
        kstack_ptr == rec.field
    IN  IF entry = NULLPTR THEN FALSE
        ELSE IF draw_action = KSHARK_TASK_DRAW
             THEN _check_function_general(sd, entry, kstack_ptr, c)
                  /\ entries[sd][entry].pid = val
             ELSE _check_function_general(sd, entry, kstack_ptr, c)
                  /\ entries[sd][entry].cpu = val

\* _make_sl_button: the button of one record (its entry and the kernel stack
\* pointer read from the record's field).
_make_sl_button(rec) ==
    [event_entry |-> rec.entry, kstack_entry |-> rec.field]

\* _draw_stacklook_buttons / eventFieldPlotMin: a button for every record of
\* the container that check_func accepts.
_draw_stacklook_buttons(sd, c, draw_action, val) ==
    LET dc == c.collected_events.data
    IN  {_make_sl_button(dc[t]) : t \in {u \in 1..Len(dc) :
                                     check_func(sd, c, draw_action, val, dc[u])}}

\* Mutant of too_many_bins: the gate also stops a request at the limit.
too_many_bins_at_limit(tot_count) == tot_count >= get_histo_limit

\* The bin gate of draw_stacklook_objects: TRUE when the call returns early.
too_many_bins(tot_count) == tot_count > get_histo_limit

\* Mutant of search_once: the block forgets to set searched_for_kstacks.
search_once_flag_forgotten(sd, c) ==
    IF ~c.searched_for_kstacks
    THEN LET s == search_for_kstacks(sd, c.collected_events)
         IN  [ctx |-> [c EXCEPT !.kstacks_exist = s.found,
                                !.collected_events = s.dct],
              scanned |-> TRUE]
    ELSE [ctx |-> c, scanned |-> FALSE]

\* The "search once per stream" block of draw_stacklook_objects: the context
\* afterwards and whether search_for_kstacks ran.
search_once(sd, c) ==
    IF ~c.searched_for_kstacks
    THEN LET s == search_for_kstacks(sd, c.collected_events)
         IN  [ctx |-> [c EXCEPT !.kstacks_exist = s.found,
                                !.searched_for_kstacks = TRUE,
                                !.collected_events = s.dct],
              scanned |-> TRUE]
    ELSE [ctx |-> c, scanned |-> FALSE]

\* Mutant of draw_stacklook_objects: returns on an empty container before
\* the search block, so the flag stays unset.
draw_returns_on_empty(sd, val, draw_action, tot_count) ==
    LET c == ctx[sd]
        quiet == [ctx |-> c, markers |-> {}, scanned |-> FALSE]
    IN  IF ~(draw_action = KSHARK_CPU_DRAW \/ draw_action = KSHARK_TASK_DRAW)
        THEN quiet
        ELSE IF too_many_bins(tot_count) THEN quiet
        ELSE IF c.collected_events = NoContainer THEN quiet
        ELSE IF Len(c.collected_events.data) = 0 THEN quiet
        ELSE LET s == search_once(sd, c)
             IN  [ctx |-> s.ctx,
                  markers |-> IF ~s.ctx.kstacks_exist THEN {}
                              ELSE _draw_stacklook_buttons(sd, s.ctx, draw_action, val),
                  scanned |-> s.scanned]

\* Mutant of draw_stacklook_objects: a request over the bin limit throws the
\* search results away, to search again after the next zoom.
draw_forgets_when_gated(sd, val, draw_action, tot_count) ==
    LET c == ctx[sd]
        quiet == [ctx |-> c, markers |-> {}, scanned |-> FALSE]
    IN  IF ~(draw_action = KSHARK_CPU_DRAW \/ draw_action = KSHARK_TASK_DRAW)
        THEN quiet
        ELSE IF c.collected_events = NoContainer THEN quiet
        ELSE IF too_many_bins(tot_count)
        THEN [quiet EXCEPT !.ctx =
                 [c EXCEPT !.searched_for_kstacks = FALSE,
                           !.kstacks_exist = FALSE,
                           !.collected_events.data =
                               [i \in DOMAIN @ |-> [@[i] EXCEPT !.field = FIELD_INIT]]]]
        ELSE LET s == search_once(sd, c)
             IN  [ctx |-> s.ctx,
                  markers |-> IF ~s.ctx.kstacks_exist THEN {}
                              ELSE _draw_stacklook_buttons(sd, s.ctx, draw_action, val),
                  scanned |-> s.scanned]

\* draw_stacklook_objects(argv, sd, val, draw_action) with
\* argv->_histo->tot_count = tot_count: the context afterwards, the buttons
\* made and whether search_for_kstacks ran.
draw_stacklook_objects(sd, val, draw_action, tot_count) ==
    LET c == ctx[sd]
        quiet == [ctx |-> c, markers |-> {}, scanned |-> FALSE]
    IN  IF ~(draw_action = KSHARK_CPU_DRAW \/ draw_action = KSHARK_TASK_DRAW)
        THEN quiet
        ELSE IF too_many_bins(tot_count) THEN quiet
        ELSE IF c.collected_events = NoContainer THEN quiet
        ELSE LET s == search_once(sd, c)
             IN  [ctx |-> s.ctx,
                  markers |-> IF ~s.ctx.kstacks_exist THEN {}
                              ELSE _draw_stacklook_buttons(sd, s.ctx, draw_action, val),
                  scanned |-> s.scanned]

---------------------------------------------------------------------------
(* Plugin attach and detach (stacklook.c) *)

\* KSHARK_PLOT_PLUGIN_INITIALIZER(stream): the statics and the stream's
\* context afterwards and the return value.  ctx_ok: __init could allocate
\* the context; dc_ok: kshark_init_data_container returned a container.
KSHARK_PLOT_PLUGIN_INITIALIZER(sd, ctx_ok, dc_ok) ==
    LET kstack_id == kshark_find_event_id(sd, KSTACK_NAME)
        g1 == [globals EXCEPT !.kstack_id = kstack_id]
    IN  IF kstack_id < 0 THEN [globals |-> g1, ctx |-> NoCtx, ret |-> 0]
        ELSE IF ~ctx_ok THEN [globals |-> g1, ctx |-> NoCtx, ret |-> 0]
        ELSE LET c == NewCtx(sd, IF dc_ok THEN Container(<<>>) ELSE NoContainer)
             IN  [globals |-> [g1 EXCEPT !.sched_switch_id = c.sswitch_event_id,
                                         !.sched_wake_id = c.swaking_event_id],
                  ctx |-> c, ret |-> 1]

---------------------------------------------------------------------------
(* Button interaction (SlButton.cpp) *)

NoDraw == [none |-> "draw"]
NoUi == [none |-> "ui"]
NoHover == [none |-> "hover"]
NoWalk == [none |-> "walk"]
NoInfo == [none |-> "info"]
NoCall == [none |-> "call"]
NoColors == <<>>
NoText == <<>>
CallsInit ==
    /\ hit = NoCall
    /\ pid_colors = NoColors
    /\ button = NoCall
    /\ evinfo = NoText
    /\ view = NoCall
    /\ line = NoText
    /\ parsed = NoCall
    /\ window = WindowInit

\* kshark_get_info(_kstack_entry) in _mouseHover and _doubleClick: the info
\* text is read when the button's kernel stack pointer is not null.  Reading
\* through a pointer that is not an entry is undefined: the process may
\* stop, or some bytes are shown.
InfoOutcomes(sd, kstack_entry) ==
    IF kstack_entry = NULLPTR THEN {"no kernel stack"}
    ELSE IF kstack_entry \in 1..Len(entries[sd]) THEN {"stack text"}
    ELSE {"crash", "garbage text"}

---------------------------------------------------------------------------
(* std::string operations used by the preview parser *)

NPOS == -1
THROWN == <<"std::out_of_range">>
Str2 == <<"=", ">">>
Str3 == <<"=", ">", " ">>
StrParen == <<" ", "(">>
ELLIPSIS == <<".", ".", ".">>
DASH == <<"-">>

\* a > b for two size_t values.
UGreater(a, b) ==
    IF (a < 0) = (b < 0) THEN a > b ELSE a < 0

\* s.find(pat, pos)
Find(s, pat, pos) ==
    LET hits == {i \in 0..(Len(s) - Len(pat)) :
                    /\ ~UGreater(pos, i)
                    /\ \A k \in 1..Len(pat) : s[i + k] = pat[k]}
    IN  IF hits = {} THEN NPOS
        ELSE CHOOSE i \in hits : \A j \in hits : i <= j

\* s.substr(pos, n): throws std::out_of_range when pos > size().
Substr(s, pos, n) ==
    IF UGreater(pos, Len(s)) THEN THROWN
    ELSE LET rlen == IF UGreater(n, Len(s) - pos) THEN Len(s) - pos ELSE n
         IN  SubSeq(s, pos + 1, pos + rlen)

\* The value of a uint32_t stored into an int16_t.
ToInt16(d) ==
    LET m == d % 65536
    IN  IF m >= 32768 THEN m - 65536 ELSE m

---------------------------------------------------------------------------
(* Preview of the kernel stack (SlButton.cpp) *)

LABEL_LIMIT == 44

\* _prettify_stack_item(to_prettify). The replace call works on the empty
\* QString and has no effect on the result.
_prettify_stack_item(to_prettify) ==
    LET name_start == Find(to_prettify, Str3, 0) + 3
        name_end == Find(to_prettify, StrParen, name_start)
        num_of_chars == name_end - name_start
    IN  IF UGreater(num_of_chars, LABEL_LIMIT)
        THEN LET cut == Substr(to_prettify, name_start, LABEL_LIMIT)
             IN  IF cut = THROWN THEN THROWN ELSE cut \o ELLIPSIS
        ELSE Substr(to_prettify, name_start, num_of_chars)

\* The for loop of _get_stack_start_pos, from counter on.
RECURSIVE stack_start_loop(_, _, _, _)
stack_start_loop(counter, str_pos, stack_offset, trace_str) ==
    IF counter < stack_offset
    THEN LET found == Find(trace_str, Str2, str_pos)
         IN  IF found = NPOS THEN NPOS
             ELSE stack_start_loop(counter + 1, found + 1, stack_offset, trace_str)
    ELSE str_pos

\* Mutant of _get_stack_start_pos: str_pos is not moved past a marker found,
\* so every turn finds the first marker again.
_get_stack_start_pos_stuck(stack_offset, trace_str) ==
    IF 0 < stack_offset THEN Find(trace_str, Str2, 0) ELSE 0

\* _get_stack_start_pos(stack_offset, trace_str)
_get_stack_start_pos(stack_offset, trace_str) ==
    stack_start_loop(0, 0, stack_offset, trace_str)

\* Mutant of last_entry_counter: finding the last entry leaves the counter
\* alone.
last_entry_counter_kept(counter, content_end) == counter

\* The counter of _get_top_three_from_start after the "found the last
\* entry" block; content_end is what the second find returned.
last_entry_counter(counter, content_end) ==
    IF content_end = NPOS THEN 3 ELSE counter

\* The for loop of _get_top_three_from_start, from counter on.
RECURSIVE top_three_loop(_, _, _, _)
top_three_loop(counter0, str_pos, trace_str, out_array) ==
    IF ~(counter0 < 3) THEN out_array
    ELSE LET content_start == Find(trace_str, Str2, str_pos)
         IN  IF content_start = NPOS THEN out_array
             ELSE LET end0 == Find(trace_str, Str2, content_start + 1)
                      content_end == IF end0 = NPOS THEN Len(trace_str) - 1 ELSE end0
                      counter == last_entry_counter(counter0, end0)
                      num_of_chars == content_end - content_start
                      item_as_str == Substr(trace_str, content_start, num_of_chars)
                      array_pos == IF counter = 3 THEN 2 ELSE counter
                      pretty == IF item_as_str = THROWN THEN THROWN
                                ELSE _prettify_stack_item(item_as_str)
                  IN  IF pretty = THROWN THEN THROWN
                      ELSE top_three_loop(counter + 1, content_end, trace_str,
                               [out_array EXCEPT ![array_pos + 1] = pretty])

\* _get_top_three_from_start(str_pos, trace_str)
_get_top_three_from_start(str_pos, trace_str) ==
    top_three_loop(0, str_pos, trace_str, <<DASH, DASH, DASH>>)

\* _get_top_three_stack_items(stacktrace, evt_name)
_get_top_three_stack_items(stacktrace, evt_name) ==
    LET stack_offset == ToInt16(get_stack_offset(evt_name))
        str_pos == _get_stack_start_pos(stack_offset, stacktrace)
    IN  IF str_pos = NPOS THEN <<DASH, DASH, DASH>>
        ELSE _get_top_three_from_start(str_pos, stacktrace)

---------------------------------------------------------------------------
(* The stream life cycle: state machine *)

\* Values of the histogram limit spin box, of the draw handler's val (a CPU
\* or a pid) and of histo->tot_count (at the limit, just above it).
HistoChoices == {1, HISTO_LIMIT_DEFAULT}
DrawVals == {0, 1}
BinCounts == {get_histo_limit, get_histo_limit + 1}
\* The stream of the life cycle specification.
MainStreams == {0}

Init ==
    /\ globals = GlobalsInit
    /\ ctx = [sd \in Streams |-> NoCtx]
    /\ entries = [sd \in Streams |-> <<>>]
    /\ phase = [sd \in Streams |-> "closed"]
    /\ cfg = SlConfigInit
    /\ drawn = NoDraw
    /\ scans = [sd \in Streams |-> 0]
    /\ ui = NoUi
    /\ hover = NoHover
    /\ walk = NoWalk
    /\ info = NoInfo
    /\ CallsInit

\* The host opens a stream with the plugin enabled.
Attach(sd, ctx_ok, dc_ok) ==
    /\ phase[sd] = "closed"
    /\ LET r == KSHARK_PLOT_PLUGIN_INITIALIZER(sd, ctx_ok, dc_ok)
       IN  /\ globals' = r.globals
           /\ ctx' = [ctx EXCEPT ![sd] = r.ctx]
           /\ phase' = [phase EXCEPT ![sd] = IF r.ret = 1 THEN "loading" ELSE "closed"]
    /\ entries' = [entries EXCEPT ![sd] = <<>>]
    /\ scans' = [scans EXCEPT ![sd] = 0]
    /\ drawn' = NoDraw
    /\ ui' = NoUi
    /\ UNCHANGED <<cfg, hover, walk, info, callvars>>

\* The host loads one record of the stream and calls the handlers registered
\* for its event id.
LoadRecord(sd, e) ==
    /\ phase[sd] = "loading"
    /\ TotalEntries < MaxEntries
    /\ entries' = [entries EXCEPT ![sd] = Append(@, e)]
    /\ ctx' = [ctx EXCEPT ![sd] = IF HandlerRegistered(sd, e)
                                  THEN _select_events(sd, Len(entries[sd]) + 1, e)
                                  ELSE @]
    /\ drawn' = NoDraw
    /\ ui' = NoUi
    /\ UNCHANGED <<globals, phase, cfg, scans, hover, walk, info, callvars>>

\* The host has loaded the stream and shows it.
FinishLoad(sd) ==
    /\ phase[sd] = "loading"
    /\ phase' = [phase EXCEPT ![sd] = "shown"]
    /\ drawn' = NoDraw
    /\ ui' = NoUi
    /\ UNCHANGED <<globals, ctx, entries, cfg, scans, hover, walk, info, callvars>>

\* The host calls the draw handler of a shown stream.
Draw(sd, val, draw_action, tot_count) ==
    /\ phase[sd] = "shown"
    /\ LET r == draw_stacklook_objects(sd, val, draw_action, tot_count)
       IN  /\ ctx' = [ctx EXCEPT ![sd] = r.ctx]
           /\ drawn' = [sd |-> sd, val |-> val, draw_action |-> draw_action,
                        tot_count |-> tot_count, markers |-> r.markers,
                        scanned |-> r.scanned]
           /\ scans' = [scans EXCEPT ![sd] =
                           IF r.scanned /\ @ < 2 THEN @ + 1 ELSE @]
    /\ ui' = NoUi
    /\ UNCHANGED <<globals, entries, phase, cfg, hover, walk, info, callvars>>

\* KSHARK_PLOT_PLUGIN_DEINITIALIZER(stream): the context is closed; the host
\* drops the stream's data.
Detach(sd) ==
    /\ phase[sd] # "closed"
    /\ ctx' = [ctx EXCEPT ![sd] = NoCtx]
    /\ phase' = [phase EXCEPT ![sd] = "closed"]
    /\ entries' = [entries EXCEPT ![sd] = <<>>]
    /\ scans' = [scans EXCEPT ![sd] = 0]
    /\ drawn' = NoDraw
    /\ ui' = NoUi
    /\ UNCHANGED <<globals, cfg, hover, walk, info, callvars>>

\* Apply in the configuration window, opened from the current configuration
\* and edited: the histogram limit and the allowed box of sched_switch.
CfgApply(limit, allow_switch) ==
    /\ LET w0 == load_cfg_values
           w == [w0 EXCEPT !.histo_limit = limit,
                           !.rows[1].allowed = allow_switch]
       IN  /\ cfg' = update_cfg(w)
           /\ cfg' # cfg
    /\ drawn' = NoDraw
    /\ ui' = NoUi
    /\ UNCHANGED <<globals, ctx, entries, phase, scans, hover, walk, info, callvars>>

\* SlTriangleButton::_mouseHover on a button of the last draw.
MouseHover(m, outcome) ==
    /\ drawn # NoDraw
    /\ m \in drawn.markers
    /\ outcome \in InfoOutcomes(drawn.sd, m.kstack_entry)
    /\ ui' = [op |-> "hover", marker |-> m, outcome |-> outcome]
    /\ UNCHANGED <<globals, ctx, entries, phase, cfg, drawn, scans, hover, walk, info, callvars>>

\* SlTriangleButton::_doubleClick on a button of the last draw.
DoubleClick(m, outcome) ==
    /\ drawn # NoDraw
    /\ m \in drawn.markers
    /\ outcome \in InfoOutcomes(drawn.sd, m.kstack_entry)
    /\ ui' = [op |-> "doubleClick", marker |-> m, outcome |-> outcome]
    /\ UNCHANGED <<globals, ctx, entries, phase, cfg, drawn, scans, hover, walk, info, callvars>>

Outcomes == {"no kernel stack", "stack text", "crash", "garbage text"}
Markers == [event_entry : 1..MaxEntries, kstack_entry : {FIELD_INIT} \cup 0..MaxEntries]

Next ==
    \/ \E sd \in MainStreams, ctx_ok \in BOOLEAN, dc_ok \in BOOLEAN :
           Attach(sd, ctx_ok, dc_ok)
    \/ \E sd \in MainStreams : \E e \in LoadedEntries(sd) : LoadRecord(sd, e)
    \/ \E sd \in MainStreams : FinishLoad(sd)
    \/ \E sd \in MainStreams, val \in DrawVals, a \in DrawActions, n \in BinCounts :
           Draw(sd, val, a, n)
    \/ \E sd \in MainStreams : Detach(sd)
    \/ \E l \in HistoChoices, a \in BOOLEAN : CfgApply(l, a)
    \/ \E m \in Markers, o \in Outcomes : MouseHover(m, o)
    \/ \E m \in Markers, o \in Outcomes : DoubleClick(m, o)

Spec == Init /\ [][Next]_vars

---------------------------------------------------------------------------
(* Properties of the stream life cycle (Spec) *)

Attached(sd) == ctx[sd] # NoCtx
HasContainer(sd) == Attached(sd) /\ ctx[sd].collected_events # NoContainer
Records(sd) == IF HasContainer(sd) THEN ctx[sd].collected_events.data ELSE <<>>
IsEntryPtr(sd, ptr) == ptr \in 1..Len(entries[sd])
\* The last operation was a draw call that got past the early returns.
DrawnPastGates ==
    /\ drawn # NoDraw
    /\ drawn.draw_action \in {KSHARK_CPU_DRAW, KSHARK_TASK_DRAW}
    /\ drawn.tot_count <= get_histo_limit
    /\ HasContainer(drawn.sd)

\* C1: every button of a draw call belongs to an entry for which
\* get_kstack_entry found a kernel stack entry, and the button's kernel
\* stack pointer is that entry; a record the search left unresolved gets no
\* button.
C1_ButtonsOnlyForResolved ==
    drawn # NoDraw =>
        \A m \in drawn.markers :
            /\ get_kstack_entry(drawn.sd, m.event_entry) # NULLPTR
            /\ m.kstack_entry = get_kstack_entry(drawn.sd, m.event_entry)

\* C3: within one context lifetime search_for_kstacks runs at most once, and
\* once it has run searched_for_kstacks is true, found or not.
C3_SearchRunsOnce ==
    \A sd \in Streams :
        Attached(sd) =>
            /\ scans[sd] <= 1
            /\ (scans[sd] >= 1 => ctx[sd].searched_for_kstacks)

\* C3 witness: the search ran and found nothing, and a later draw call went
\* through the search block without searching again.
C3_Witness ==
    /\ DrawnPastGates
    /\ ~drawn.scanned
    /\ scans[drawn.sd] = 1
    /\ ~ctx[drawn.sd].kstacks_exist
    /\ Len(Records(drawn.sd)) > 0

\* C4: a record's field that holds a kernel stack entry keeps its value in
\* every step that leaves the stream's context in place.
C4_ResolvedStaysPut ==
    [][\A sd \in Streams :
          (Attached(sd) /\ ctx'[sd] # NoCtx) =>
              \A i \in 1..Len(Records(sd)) :
                  IsEntryPtr(sd, Records(sd)[i].field) =>
                      /\ ctx'[sd].collected_events # NoContainer
                      /\ i <= Len(ctx'[sd].collected_events.data)
                      /\ ctx'[sd].collected_events.data[i] = Records(sd)[i]]_vars

\* C4 witness: a resolved record, after a draw call that did not search, and
\* a hover on its button.
C4_Witness ==
    /\ DrawnPastGates
    /\ ~drawn.scanned
    /\ ui # NoUi
    /\ \E i \in 1..Len(Records(drawn.sd)) :
           IsEntryPtr(drawn.sd, Records(drawn.sd)[i].field)

Condition1(sd, rec) == rec.entry # NULLPTR /\ IsEntryPtr(sd, rec.field)
Condition2(sd, rec) ==
    entries[sd][rec.entry].event_id
        \in {ctx[sd].sswitch_event_id, ctx[sd].swaking_event_id}
Condition3(sd, rec) ==
    LET n == kshark_get_event_name(sd, entries[sd][rec.entry])
    IN  n \in DOMAIN cfg._events_meta /\ cfg._events_meta[n].allowed
Condition4(sd, rec) ==
    {EVENT_VIEW, GRAPH_VIEW} \subseteq entries[sd][rec.entry].visible
Condition5(sd, rec, draw_action, val) ==
    IF draw_action = KSHARK_TASK_DRAW
    THEN entries[sd][rec.entry].pid = val
    ELSE entries[sd][rec.entry].cpu = val

\* C6: the eligibility check of a record is the conjunction of the five
\* conditions: in a draw call that reaches the check, a record gets a button
\* exactly when all five hold.
C6_EligibleIffFiveConditions ==
    (DrawnPastGates /\ ctx[drawn.sd].kstacks_exist) =>
        \A i \in 1..Len(Records(drawn.sd)) :
            LET rec == Records(drawn.sd)[i]
            IN  (\E m \in drawn.markers : m.event_entry = rec.entry)
                <=> /\ Condition1(drawn.sd, rec)
                    /\ Condition2(drawn.sd, rec)
                    /\ Condition3(drawn.sd, rec)
                    /\ Condition4(drawn.sd, rec)
                    /\ Condition5(drawn.sd, rec, drawn.draw_action, drawn.val)

\* A step of the draw handler: the only steps that end with a draw record
\* and no hover or double click on it.
IsDrawStep == drawn' # NoDraw /\ ui' = NoUi

\* C7: a draw call with more bins than the limit makes no button and leaves
\* the context (flags and records) as it was, without searching; a call with
\* exactly the limit is not stopped by the gate: it runs the search block.
C7_BinGate ==
    [][IsDrawStep =>
          /\ drawn'.tot_count > get_histo_limit =>
                 /\ ctx' = ctx
                 /\ drawn'.markers = {}
                 /\ ~drawn'.scanned
          /\ (/\ drawn'.tot_count = get_histo_limit
              /\ drawn'.draw_action \in {KSHARK_CPU_DRAW, KSHARK_TASK_DRAW}
              /\ HasContainer(drawn'.sd)) =>
                 ctx'[drawn'.sd].searched_for_kstacks]_vars

\* C7 witness: a call over the limit on a stream not yet searched, one of
\* whose records has a kernel stack entry to find.
C7_Witness ==
    /\ drawn # NoDraw
    /\ drawn.tot_count > get_histo_limit
    /\ drawn.draw_action \in {KSHARK_CPU_DRAW, KSHARK_TASK_DRAW}
    /\ HasContainer(drawn.sd)
    /\ ~ctx[drawn.sd].searched_for_kstacks
    /\ \E i \in 1..Len(Records(drawn.sd)) :
           get_kstack_entry(drawn.sd, Records(drawn.sd)[i].entry) # NULLPTR

---------------------------------------------------------------------------
(* get_kstack_entry on arbitrary entry arrays (SpecWalk) *)

MaxChain == 3

\* Entries as other plugins may leave them: on either CPU, and either
\* untouched or with the pid field rewritten (kshark_get_pid still reads the
\* recorded pid, tpid).
WalkEntries ==
    {EntryOf(ev, p, c, AllMasks, p) :
        ev \in {kshark_find_event_id(0, SWITCH_NAME), kshark_find_event_id(0, KSTACK_NAME)},
        p \in Pids, c \in Cpus}
    \cup
    {EntryOf(ev, p, c, AllMasks \ {UNTOUCHED}, CHOOSE q \in Pids : q # p) :
        ev \in {kshark_find_event_id(0, SWITCH_NAME), kshark_find_event_id(0, KSTACK_NAME)},
        p \in Pids, c \in Cpus}

WalkArrays == UNION {[1..n -> WalkEntries] : n \in 0..MaxChain}

InitWalk ==
    /\ globals = GlobalsInit
    /\ entries \in {[sd \in Streams |-> IF sd = 0 THEN a ELSE <<>>] : a \in WalkArrays}
    /\ ctx \in {[sd \in Streams |-> NoCtx],
                [sd \in Streams |-> IF sd = 0 THEN NewCtx(0, NoContainer) ELSE NoCtx]}
    /\ phase = [sd \in Streams |-> "closed"]
    /\ cfg = SlConfigInit
    /\ drawn = NoDraw
    /\ scans = [sd \in Streams |-> 0]
    /\ ui = NoUi
    /\ hover = NoHover
    /\ walk = NoWalk
    /\ info = NoInfo
    /\ CallsInit

\* One call get_kstack_entry(kstack_owner) on stream 0; 0 is the null owner.
Walk(kstack_owner) ==
    /\ walk' = [owner |-> kstack_owner, result |-> get_kstack_entry(0, kstack_owner),
                steps |-> get_kstack_entry_steps(0, kstack_owner)]
    /\ view' = NoCall
    /\ UNCHANGED <<globals, ctx, entries, phase, cfg, drawn, scans, ui, hover, info,
                   hit, pid_colors, button, evinfo, line, parsed, window>>

\* The records _select_events has collected of the entries of stream 0: one
\* for each sched_switch entry, in the order of the entries.
RECURSIVE WalkRecords(_)
WalkRecords(i) ==
    IF i > Len(entries[0]) THEN <<>>
    ELSE (IF entries[0][i].event_id = ctx[0].sswitch_event_id
          THEN <<[entry |-> i, field |-> FIELD_INIT]>> ELSE <<>>)
         \o WalkRecords(i + 1)

\* search_for_kstacks on the records collected of stream 0.
Scan ==
    /\ ctx[0] # NoCtx
    /\ view' = [op |-> "search_for_kstacks",
                walks |-> search_for_kstacks_walks(0, Container(WalkRecords(1))),
                found |-> search_for_kstacks(0, Container(WalkRecords(1))).found]
    /\ walk' = NoWalk
    /\ UNCHANGED <<globals, ctx, entries, phase, cfg, drawn, scans, ui, hover, info,
                   hit, pid_colors, button, evinfo, line, parsed, window>>

NextWalk ==
    \/ \E kstack_owner \in 0..Len(entries[0]) : Walk(kstack_owner)
    \/ Scan

SpecWalk == InitWalk /\ [][NextWalk]_vars

\* The owner's effective process id.
EffectivePid(e) == IF UNTOUCHED \in e.visible THEN e.pid ELSE e.tpid
\* The entries of the owner's next-chain (the owner and the later entries of
\* its CPU) that are kernel stack entries of the owner's effective pid.
ChainMatches(owner) ==
    {j \in owner..Len(entries[0]) :
        /\ entries[0][j].cpu = entries[0][owner].cpu
        /\ entries[0][j].event_id = ctx[0].kstack_event_id
        /\ entries[0][j].pid = EffectivePid(entries[0][owner])}

---------------------------------------------------------------------------
(* The preview of a recorded stack under every skip depth (SpecPreview) *)

MaxFrames == 4

\* Frame names, the address printed after them and the first line of the
\* text trace-cmd prints for a kernel stack.
FrameNames == {<<"a">>, <<"b", "c">>}
ADDRESS == <<"f", "f">>
HEADER == <<"<", "s", "t", "a", "c", "k", " ", "t", "r", "a", "c", "e", " ", ">", "\n">>
FrameLine(name) == Str3 \o name \o StrParen \o ADDRESS \o <<")">>

\* The recorded stacks: the frames, top first, whether the text starts with
\* the header line and whether it ends with a newline.
Stacks ==
    [header : BOOLEAN,
     frames : UNION {[1..n -> FrameNames] : n \in 0..MaxFrames},
     newline_end : BOOLEAN]

RECURSIVE FrameLines(_, _)
FrameLines(frames, i) ==
    IF i > Len(frames) THEN <<>>
    ELSE FrameLine(frames[i])
         \o (IF i < Len(frames) THEN <<"\n">> ELSE <<>>)
         \o FrameLines(frames, i + 1)

\* kshark_get_info(kstack_entry): the text of the recorded stack.
kshark_get_info(st) ==
    (IF st.header THEN HEADER ELSE <<>>)
    \o FrameLines(st.frames, 1)
    \o (IF st.newline_end /\ Len(st.frames) > 0 THEN <<"\n">> ELSE <<>>)

\* Values of a depth spin box (0 to 100,000,000): around the number of
\* frames, and around the limits of a 16 bit number.
PvDepths == 0..(MaxFrames + 1) \cup {32768, 65536, 65537, DEPTH_MAX}

InitPreview ==
    /\ globals = GlobalsInit
    /\ ctx = [sd \in Streams |-> NoCtx]
    /\ entries = [sd \in Streams |-> <<>>]
    /\ phase = [sd \in Streams |-> "closed"]
    /\ cfg = SlConfigInit
    /\ drawn = NoDraw
    /\ scans = [sd \in Streams |-> 0]
    /\ ui = NoUi
    /\ hover = NoHover
    /\ walk = NoWalk
    /\ info \in Stacks
    /\ CallsInit

\* Apply in the configuration window after a change of the depth of the
\* row of sched_switch.
PvApply(depth) ==
    /\ LET w0 == load_cfg_values
           w == [w0 EXCEPT !.rows[1].depth = depth]
       IN  /\ cfg' = update_cfg(w)
           /\ cfg' # cfg
    /\ hover' = NoHover
    /\ UNCHANGED <<globals, ctx, entries, phase, drawn, scans, ui, walk, info, callvars>>

\* SlTriangleButton::_mouseHover on the button of an event named event_name
\* whose kernel stack entry has the text of info: the labels handed to
\* setPreviewLabels, or THROWN when the call ends in an exception.
PvHover(event_name) ==
    /\ LET top_three_items ==
               _get_top_three_stack_items(kshark_get_info(info), event_name)
           last_item == IF top_three_items = THROWN THEN THROWN
                        ELSE IF top_three_items[3] = DASH THEN "(End of stack)"
                        ELSE "..."
       IN  hover' = [event_name |-> event_name,
                     top_three_items |-> top_three_items,
                     last_item |-> last_item]
    /\ UNCHANGED <<globals, ctx, entries, phase, cfg, drawn, scans, ui, walk, info, callvars>>

NextPreview ==
    \/ \E depth \in PvDepths : PvApply(depth)
    \/ \E event_name \in {SWITCH_NAME, WAKING_NAME} : PvHover(event_name)

SpecPreview == InitPreview /\ [][NextPreview]_vars

\* Of the last hover: the number of frames of the text, the skip depth of
\* the event, the frames left after the skip, the name of frame i.
PvN == Len(info.frames)
PvD == cfg._events_meta[hover.event_name].depth
PvLeft == PvN - PvD
PvName(i) == info.frames[i]

\* C8: with a skip depth above the number of frames the preview is three
\* placeholders, for every depth the configuration can hold.
C8_DepthAboveFramesGivesPlaceholders ==
    (hover # NoHover /\ PvD > PvN) =>
        hover.top_three_items = <<DASH, DASH, DASH>>

\* C9 as claimed: with 0 <= d <= N the preview is the names of the
\* min(3, N - d) frames after the skip, in order in the leading slots, and
\* placeholders in the slots after them.
C9_LeadingSlots ==
    (hover # NoHover /\ PvD <= PvN) =>
        hover.top_three_items =
            [i \in 1..3 |-> IF i <= PvLeft THEN PvName(PvD + i) ELSE DASH]

\* C9 amended: with 0 <= d <= N the preview holds the names of the
\* min(3, N - d) frames after the skip, in order, and placeholders in the
\* other slots; when one or two frames are left, the last frame of the text
\* is in the third slot and the frame before it, if any, in the first.
C9_NamesInOrderLastInThird ==
    (hover # NoHover /\ PvD <= PvN) =>
        hover.top_three_items =
            [i \in 1..3 |->
                IF PvLeft >= 3 THEN PvName(PvD + i)
                ELSE IF i = 3 /\ PvLeft >= 1 THEN PvName(PvN)
                ELSE IF i < PvLeft THEN PvName(PvD + i)
                ELSE DASH]

\* C9 witness: a hover after a skip of one frame that leaves two frames of
\* different names, under a text with the header line.
C9_Witness ==
    /\ hover # NoHover
    /\ info.header
    /\ PvD = 1
    /\ PvLeft = 2
    /\ PvName(PvN - 1) # PvName(PvN)
    /\ hover.top_three_items[1] = PvName(PvN - 1)

\* C10: when the walk reads the last frame of the text, that frame goes to
\* the third slot and the walk stops: one frame after the start gives
\* [-, -, last], two give [first, -, last], three give [first, second, last].
C10_LastFrameInThirdSlot ==
    (hover # NoHover /\ PvLeft \in 1..3) =>
        /\ hover.top_three_items[3] = PvName(PvN)
        /\ PvLeft = 1 => hover.top_three_items = <<DASH, DASH, PvName(PvN)>>
        /\ PvLeft = 2 =>
               hover.top_three_items = <<PvName(PvN - 1), DASH, PvName(PvN)>>
        /\ PvLeft = 3 =>
               hover.top_three_items =
                   <<PvName(PvN - 2), PvName(PvN - 1), PvName(PvN)>>

\* C10 witness: a hover on a text of three frames, two of them skipped, that
\* does not end with a newline.
C10_Witness ==
    /\ hover # NoHover
    /\ PvN = 3
    /\ PvD = 2
    /\ ~info.newline_end
    /\ hover.top_three_items = <<DASH, DASH, PvName(3)>>

---------------------------------------------------------------------------
(* The parser functions on arbitrary texts (SpecText) *)

MaxTokens == 3

RECURSIVE Rep(_, _)
Rep(c, n) == IF n = 0 THEN <<>> ELSE <<c>> \o Rep(c, n - 1)

\* Names of frames: short, with a newline inside, of LABEL_LIMIT characters
\* and of one more.
TextNames ==
    {<<"a">>, <<"b", "c">>, <<"a", "\n", "b">>,
     Rep("x", LABEL_LIMIT), Rep("x", LABEL_LIMIT + 1)}

\* Pieces of stack texts, and the texts of up to MaxTokens pieces.
Tokens == {Str2, Str3, <<"a">>, StrParen \o ADDRESS \o <<")">>, <<"\n">>}
RECURSIVE Concat(_, _)
Concat(seq, i) == IF i > Len(seq) THEN <<>> ELSE seq[i] \o Concat(seq, i + 1)
TokenTexts ==
    {Concat(ts, 1) : ts \in UNION {[1..n -> Tokens] : n \in 0..MaxTokens}}

\* The texts: frame lines as the walk cuts them (up to the next marker, or
\* without the last character of the text), frame lines without address,
\* names alone, and the texts made of pieces.
Texts ==
    {FrameLine(n) : n \in TextNames}
    \cup {FrameLine(n) \o <<"\n">> : n \in TextNames}
    \cup {Str3 \o n : n \in TextNames}
    \cup TextNames
    \cup TokenTexts

TxDepths == {0, 1, 2}

InitText ==
    /\ globals = GlobalsInit
    /\ ctx = [sd \in Streams |-> NoCtx]
    /\ entries = [sd \in Streams |-> <<>>]
    /\ phase = [sd \in Streams |-> "closed"]
    /\ cfg = SlConfigInit
    /\ drawn = NoDraw
    /\ scans = [sd \in Streams |-> 0]
    /\ ui = NoUi
    /\ hover = NoHover
    /\ walk = NoWalk
    /\ info = NoInfo
    /\ window = WindowInit
    /\ hit = NoCall
    /\ pid_colors = NoColors
    /\ button = NoCall
    /\ evinfo = NoText
    /\ view = NoCall
    /\ line \in Texts
    /\ parsed = NoCall

TextFrame == <<globals, ctx, entries, phase, drawn, scans, ui, hover, walk, info,
               hit, pid_colors, button, evinfo, view, line, window>>

\* Apply in the configuration window after a change of the depth of the
\* row of sched_switch.
TxApply(depth) ==
    /\ LET w0 == load_cfg_values
           w == [w0 EXCEPT !.rows[1].depth = depth]
       IN  /\ cfg' = update_cfg(w)
           /\ cfg' # cfg
    /\ parsed' = NoCall
    /\ UNCHANGED TextFrame

\* _prettify_stack_item(line)
TxPrettify ==
    /\ parsed' = [fn |-> "_prettify_stack_item",
                  result |-> _prettify_stack_item(line)]
    /\ UNCHANGED <<cfg, TextFrame>>

\* _get_stack_start_pos(stack_offset, line)
TxStartPos(stack_offset) ==
    /\ parsed' = [fn |-> "_get_stack_start_pos", stack_offset |-> stack_offset,
                  result |-> _get_stack_start_pos(stack_offset, line)]
    /\ UNCHANGED <<cfg, TextFrame>>

\* _get_top_three_from_start(str_pos, line)
TxTopThreeFrom(str_pos) ==
    /\ parsed' = [fn |-> "_get_top_three_from_start", str_pos |-> str_pos,
                  result |-> _get_top_three_from_start(str_pos, line)]
    /\ UNCHANGED <<cfg, TextFrame>>

\* _get_top_three_stack_items(line, evt_name)
TxTopThree(evt_name) ==
    /\ parsed' = [fn |-> "_get_top_three_stack_items", evt_name |-> evt_name,
                  result |-> _get_top_three_stack_items(line, evt_name)]
    /\ UNCHANGED <<cfg, TextFrame>>

NextText ==
    \/ \E depth \in TxDepths : TxApply(depth)
    \/ TxPrettify
    \/ \E stack_offset \in TxDepths : TxStartPos(stack_offset)
    \/ \E str_pos \in 0..Len(line) : TxTopThreeFrom(str_pos)
    \/ \E evt_name \in {SWITCH_NAME, WAKING_NAME} : TxTopThree(evt_name)

SpecText == InitText /\ [][NextText]_vars

Prettified == parsed # NoCall /\ parsed.fn = "_prettify_stack_item"
HasNewline(str) == \E i \in 1..Len(str) : str[i] = "\n"
RECURSIVE WithoutNewlines(_)
WithoutNewlines(str) ==
    IF str = <<>> THEN <<>>
    ELSE (IF Head(str) = "\n" THEN <<>> ELSE <<Head(str)>>)
         \o WithoutNewlines(Tail(str))

\* C11: for a frame line "=> NAME (ADDR)" the result of prettify is NAME
\* without its newlines when NAME has at most 44 characters, and the first
\* 44 characters of NAME followed by "..." when it has more.
C11_NameOrCutName ==
    Prettified =>
        \A n \in TextNames :
            line = FrameLine(n) =>
                parsed.result =
                    IF Len(n) <= LABEL_LIMIT THEN WithoutNewlines(n)
                    ELSE SubSeq(n, 1, LABEL_LIMIT) \o ELLIPSIS

\* C12: for a frame line (a text that starts with "=> "), with or without
\* address, the result of prettify has at most 47 characters and no newline.
C12_ShortAndOneLine ==
    (Prettified /\ Len(line) >= 3 /\ SubSeq(line, 1, 3) = Str3) =>
        /\ parsed.result # THROWN
        /\ Len(parsed.result) <= LABEL_LIMIT + 3
        /\ ~HasNewline(parsed.result)

\* C13: a text of at most 44 characters with no "=> ", no " (" and no
\* newline is what prettify returns for it.
C13_ShortNamesKept ==
    (/\ Prettified
     /\ Len(line) <= LABEL_LIMIT
     /\ Find(line, Str3, 0) = NPOS
     /\ Find(line, StrParen, 0) = NPOS
     /\ ~HasNewline(line)) =>
        parsed.result = line

\* C14: no call of a parser function ends in an exception
\* (_get_stack_start_pos only searches: its result is always a position).
C14_NeverThrows ==
    parsed # NoCall =>
        \/ parsed.fn = "_get_stack_start_pos"
        \/ parsed.result # THROWN

\* ---------------------------------------------------------------------
\* SlTriangleButton::distance: the hit test of a marker
\* (SlButton.cpp:121-127, 274-296).
\* ---------------------------------------------------------------------

MaxCoord == 3

Abs(n) ==
    IF n < 0 THEN -n ELSE n

\* The two values distance returns: the literal 0 and
\* std::numeric_limits<double>::max().
ZERO == "0"

DBL_MAX == "std::numeric_limits<double>::max()"

\* A double d that is a multiple of 0.5 is represented by the integer 2 * d:
\* the coordinates are ints, the sum of products is an int, and the
\* division by 2.0 and the additions of such values are exact in binary
\* floating point.  abs is the double overload (the Qt headers included
\* before this function include <stdlib.h>, whose C++ wrapper brings the
\* std::abs overloads into the global namespace).
Halves(n) ==
    n

_trigon_area_abs_int(a, b, c) ==
    2 * (Abs((a.x * (b.y - c.y)) + (b.x * (c.y - a.y)) + (c.x * (a.y - b.y))) \div 2)

_trigon_area(a, b, c) ==
    Abs(Halves((a.x * (b.y - c.y)) + (b.x * (c.y - a.y)) + (c.x * (a.y - b.y))))

distance(a, b, c, x, y) ==
    LET p == [x |-> x, y |-> y]
        triangle_area == _trigon_area(a, b, c)
        pbc_area == _trigon_area(p, b, c)
        apc_area == _trigon_area(a, p, c)
        abp_area == _trigon_area(a, b, p)
        p_areas_sum == pbc_area + apc_area + abp_area
    IN  IF triangle_area = p_areas_sum THEN ZERO ELSE DBL_MAX

GridPoints == [x : 0..MaxCoord, y : 0..MaxCoord]

\* The outline triangle of a marker whose base point is (24, 27)
\* (Stacklook.cpp:160-170) and mouse positions at its corners, on its
\* edges, inside and just outside of it.
ButtonA == [x |-> 0, y |-> 0]

ButtonB == [x |-> 48, y |-> 0]

ButtonC == [x |-> 24, y |-> 25]

ButtonPoints ==
    {[x |-> 24, y |-> 25], [x |-> 24, y |-> 26], [x |-> 24, y |-> 0],
     [x |-> 24, y |-> 12], [x |-> 48, y |-> 0], [x |-> 47, y |-> 1],
     [x |-> 47, y |-> 2], [x |-> 1, y |-> 1], [x |-> 1, y |-> 2],
     [x |-> 12, y |-> 12], [x |-> 12, y |-> 13], [x |-> 49, y |-> 0]}

Triangles ==
    {t \in [a : GridPoints, b : GridPoints, c : GridPoints] :
        _trigon_area(t.a, t.b, t.c) # 0}

\* The marker's triangle and the mouse position of a pending call.
ButtonTriangle == [a |-> ButtonA, b |-> ButtonB, c |-> ButtonC]

HitCalls ==
    [t : Triangles, p : GridPoints] \cup [t : {ButtonTriangle}, p : ButtonPoints]

NotAsked == "not asked"

InitHit ==
    /\ globals = GlobalsInit
    /\ ctx = [sd \in Streams |-> NoCtx]
    /\ entries = [sd \in Streams |-> <<>>]
    /\ phase = [sd \in Streams |-> "closed"]
    /\ cfg = SlConfigInit
    /\ drawn = NoDraw
    /\ scans = [sd \in Streams |-> 0]
    /\ ui = NoUi
    /\ hover = NoHover
    /\ walk = NoWalk
    /\ info = NoInfo
    /\ window = WindowInit
    /\ pid_colors = NoColors
    /\ button = NoCall
    /\ evinfo = NoText
    /\ view = NoCall
    /\ line = NoText
    /\ parsed = NoCall
    /\ \E call \in HitCalls :
        hit = [a |-> call.t.a, b |-> call.t.b, c |-> call.t.c, p |-> call.p,
               result |-> NotAsked]

HitFrame == <<globals, ctx, entries, phase, cfg, drawn, scans, ui, hover, walk,
              info, pid_colors, button, evinfo, view, line, parsed, window>>

\* The host asks the marker how far the mouse position is from it.
HitTest ==
    /\ hit.result = NotAsked
    /\ hit' = [hit EXCEPT !.result = distance(hit.a, hit.b, hit.c, hit.p.x, hit.p.y)]
    /\ UNCHANGED HitFrame

NextHit ==
    HitTest

SpecHit == InitHit /\ [][NextHit]_vars

\* Barycentric coordinates of p in the triangle (a, b, c), as numerators
\* over the common denominator den (which is not 0 for a triangle).
BaryDen(a, b, c) ==
    ((b.y - c.y) * (a.x - c.x)) + ((c.x - b.x) * (a.y - c.y))

BaryNum1(a, b, c, p) ==
    ((b.y - c.y) * (p.x - c.x)) + ((c.x - b.x) * (p.y - c.y))

BaryNum2(a, b, c, p) ==
    ((c.y - a.y) * (p.x - c.x)) + ((a.x - c.x) * (p.y - c.y))

Sign(n) ==
    IF n < 0 THEN -1 ELSE IF n > 0 THEN 1 ELSE 0

Barycentric(a, b, c, p) ==
    LET den == BaryDen(a, b, c)
        n1 == BaryNum1(a, b, c, p)
        n2 == BaryNum2(a, b, c, p)
        n3 == den - n1 - n2
        signs == {Sign(n1) * Sign(den), Sign(n2) * Sign(den), Sign(n3) * Sign(den)}
    IN  IF -1 \in signs THEN "outside"
        ELSE IF 0 \in signs THEN "edge"
        ELSE "inside"

\* C15: the hit test returns 0 exactly for the points the barycentric
\* classifier puts inside the triangle or on one of its edges, the largest
\* double for the points it puts outside, and nothing else.
C15_HitTestIsBarycentric ==
    (hit # NoCall /\ hit.result # NotAsked) =>
        LET where == Barycentric(hit.a, hit.b, hit.c, hit.p)
        IN  /\ hit.result \in {ZERO, DBL_MAX}
            /\ where \in {"inside", "edge"} => hit.result = ZERO
            /\ where = "outside" => hit.result = DBL_MAX

\* A mouse position on an edge of the marker's triangle, not at a corner,
\* is a hit.
C15_Witness ==
    /\ hit # NoCall
    /\ hit.result # NotAsked
    /\ hit.a = ButtonA /\ hit.b = ButtonB /\ hit.c = ButtonC
    /\ hit.p \notin {hit.a, hit.b, hit.c}
    /\ Barycentric(hit.a, hit.b, hit.c, hit.p) = "edge"
    /\ hit.result = ZERO

\* ---------------------------------------------------------------------
\* The colours of a marker: _get_task_color, _black_or_white_text,
\* _get_color_intensity and the colour part of _make_sl_button
\* (Stacklook.cpp:90-131, 181-213).
\* ---------------------------------------------------------------------

\* A float (IEEE 754 binary32) value v of the intensity computation is the
\* integer v * 2^27, kept in two limbs: v * 2^27 = hi * LIMB + lo with
\* 0 <= lo < LIMB.  Every product and sum below is a multiple of 2^-27 and
\* is below 2^8, so the representation is exact; Round24 is the rounding of
\* an operation's exact result to the 24 significant bits of a float
\* (round to nearest, ties to even).
LIMB == 65536

F32(hi, lo) ==
    [hi |-> hi + (lo \div LIMB), lo |-> lo % LIMB]

\* The float literals 0.114f, 0.587f and 0.299f, times 2^27.
COEF_B == F32(233, 30933)

COEF_G == F32(1202, 11536)

COEF_R == F32(612, 23068)

\* INTENSITY_LIMIT = 128.f, times 2^27.
INTENSITY_LIMIT == F32(262144, 0)

RECURSIVE BitLen(_)
BitLen(n) ==
    IF n = 0 THEN 0 ELSE 1 + BitLen(n \div 2)

RECURSIVE Pow2(_)
Pow2(n) ==
    IF n = 0 THEN 1 ELSE 2 * Pow2(n - 1)

Round24(f) ==
    IF BitLen(f.hi) <= 8 THEN f
    ELSE LET unit == Pow2(BitLen(f.hi) - 8)
             rest == f.lo % unit
             down == f.lo - rest
             up == \/ 2 * rest > unit
                   \/ 2 * rest = unit /\ (down \div unit) % 2 = 1
         IN  F32(f.hi, IF up THEN down + unit ELSE down)

\* component * literal: the colour component (uint8_t, promoted to int and
\* converted to float without loss) times a float literal.
FloatMul(component, literal) ==
    Round24(F32(component * literal.hi, component * literal.lo))

FloatAdd(f, g) ==
    Round24(F32(f.hi + g.hi, f.lo + g.lo))

FloatGreater(f, g) ==
    \/ f.hi > g.hi
    \/ f.hi = g.hi /\ f.lo > g.lo

\* A KsPlot::Color is <<r, g, b>>.
_get_color_intensity(c) ==
    FloatAdd(FloatAdd(FloatMul(c[3], COEF_B), FloatMul(c[2], COEF_G)),
             FloatMul(c[1], COEF_R))

_black_or_white_text_at_limit(bg_color_intensity) ==
    IF ~FloatGreater(INTENSITY_LIMIT, bg_color_intensity) THEN BLACK ELSE WHITE

_black_or_white_text(bg_color_intensity) ==
    IF FloatGreater(bg_color_intensity, INTENSITY_LIMIT) THEN BLACK ELSE WHITE

_get_task_color_of_anyone(task_pid, default_color) ==
    IF pid_colors # NoColors
    THEN pid_colors[CHOOSE p \in DOMAIN pid_colors : TRUE]
    ELSE default_color

\* pid_colors is the host's colour table (getPidColors()).
_get_task_color(task_pid, default_color) ==
    LET task_color_exists == task_pid \in DOMAIN pid_colors
    IN  IF task_color_exists THEN pid_colors[task_pid] ELSE default_color

get_use_task_colors == cfg._use_task_colors

get_default_btn_col == cfg._default_btn_col

get_button_outline_col == cfg._button_outline_col

\* _make_sl_button, lines 181-213: the colours of the filled triangle, of
\* its outline and of the label text; col is the colour the caller passes,
\* get_default_btn_col().
sl_button_colors(event_entry, col) ==
    LET entry_pid == IF UNTOUCHED \in event_entry.visible
                     THEN event_entry.pid ELSE event_entry.tpid
        inner_color == IF get_use_task_colors
                       THEN _get_task_color(entry_pid, col) ELSE col
        bg_intensity == _get_color_intensity(inner_color)
    IN  [event_entry |-> event_entry,
         inner_triangle |-> inner_color,
         back_triangle |-> get_button_outline_col,
         text_color |-> _black_or_white_text(bg_intensity)]

ColorLevels == {0, 64, 128, 192, 255}

\* Colours whose intensity 0.299 r + 0.587 g + 0.114 b is exactly 128,
\* 128.001 or 127.999.
LimitColors ==
    {<<1, 189, 147>>, <<4, 210, 31>>, <<131, 149, 12>>, <<150, 130, 60>>,
     <<2, 205, 62>>, <<3, 174, 219>>, <<6, 195, 103>>,
     <<0, 173, 232>>, <<3, 194, 116>>, <<6, 215, 0>>}

TaskColors ==
    {<<r, g, b>> : r \in ColorLevels, g \in ColorLevels, b \in ColorLevels}
    \cup LimitColors

\* Colours of the two colour buttons of the configuration window.
ButtonColors == {WHITE, BLACK, <<128, 128, 128>>, <<2, 205, 62>>}

OutlineColors == {BLACK, <<255, 0, 0>>}

\* Colour tables of the host: no task has a colour, or one task has.
ColorTables ==
    {NoColors} \cup {[p \in {task} |-> c] : task \in Pids, c \in TaskColors}

\* Entries a marker is made for: sched_switch events of a stream in which
\* the event has id 1.
ColorEntries ==
    {EntryOf(1, p, 0, vis, tp) :
        p \in Pids, tp \in Pids, vis \in {AllMasks, AllMasks \ {UNTOUCHED}}}

InitColor ==
    /\ globals = GlobalsInit
    /\ ctx = [sd \in Streams |-> NoCtx]
    /\ entries = [sd \in Streams |-> <<>>]
    /\ phase = [sd \in Streams |-> "closed"]
    /\ cfg = SlConfigInit
    /\ drawn = NoDraw
    /\ scans = [sd \in Streams |-> 0]
    /\ ui = NoUi
    /\ hover = NoHover
    /\ walk = NoWalk
    /\ info = NoInfo
    /\ window = WindowInit
    /\ hit = NoCall
    /\ pid_colors \in ColorTables
    /\ button = NoCall
    /\ evinfo = NoText
    /\ view = NoCall
    /\ line = NoText
    /\ parsed = NoCall

ColorFrame == <<globals, ctx, entries, phase, drawn, scans, ui, hover, walk,
                info, hit, pid_colors, evinfo, view, line, parsed, window>>

\* Apply in the configuration window with new colours.
ColApply(def_btn_col, btn_outline, task_col_btn) ==
    /\ LET w0 == load_cfg_values
           w == [w0 EXCEPT !.def_btn_col = def_btn_col,
                           !.btn_outline = btn_outline,
                           !.task_col_btn = task_col_btn]
       IN  /\ cfg' = update_cfg(w)
           /\ cfg' # cfg
    /\ button' = NoCall
    /\ UNCHANGED ColorFrame

\* A marker is made for an entry (_draw_stacklook_buttons passes the
\* default colour).
ColMake(event_entry) ==
    /\ button' = sl_button_colors(event_entry, get_default_btn_col)
    /\ UNCHANGED <<cfg, ColorFrame>>

NextColor ==
    \/ \E c \in ButtonColors, o \in OutlineColors, t \in BOOLEAN : ColApply(c, o, t)
    \/ \E e \in ColorEntries : ColMake(e)

SpecColor == InitColor /\ [][NextColor]_vars

\* 1000 times the intensity 0.299 r + 0.587 g + 0.114 b of a colour, exact.
Intensity1000(c) ==
    (299 * c[1]) + (587 * c[2]) + (114 * c[3])

\* C16: the label text of a marker is black if the intensity of the
\* marker's fill colour is above 128, and white otherwise (also at exactly
\* 128).
C16_TextColorByIntensity ==
    button # NoCall =>
        button.text_color =
            IF Intensity1000(button.inner_triangle) > 128000 THEN BLACK ELSE WHITE

\* A marker filled with a task colour of intensity exactly 128 has white
\* text although the default colour would give black text.
C16_Witness ==
    /\ button # NoCall
    /\ cfg._use_task_colors
    /\ button.inner_triangle # cfg._default_btn_col
    /\ Intensity1000(button.inner_triangle) = 128000
    /\ Intensity1000(cfg._default_btn_col) > 128000
    /\ button.text_color = WHITE

\* C17: a marker is filled with the default colour if task colours are
\* off or the colour table has no entry for the effective process id of
\* its entry, and with that table entry otherwise; its outline has the
\* configured outline colour.
C17_FillAndOutline ==
    button # NoCall =>
        /\ button.inner_triangle =
               IF cfg._use_task_colors
                  /\ EffectivePid(button.event_entry) \in DOMAIN pid_colors
               THEN pid_colors[EffectivePid(button.event_entry)]
               ELSE cfg._default_btn_col
        /\ button.back_triangle = cfg._button_outline_col

\* Task colours are on, the table has a colour for another task only, and
\* the marker of an entry that a plugin has touched is made.
C17_Witness ==
    /\ button # NoCall
    /\ cfg._use_task_colors
    /\ pid_colors # NoColors
    /\ UNTOUCHED \notin button.event_entry.visible
    /\ button.event_entry.pid \in DOMAIN pid_colors
    /\ button.event_entry.tpid \notin DOMAIN pid_colors
    /\ button.inner_triangle = cfg._default_btn_col
    /\ button.back_triangle # BLACK

\* ---------------------------------------------------------------------
\* The state a task was switched out in (SlPrevState.hpp, SlPrevState.cpp)
\* and the specific info of the detailed view (SlButton.cpp:88-108).
\* ---------------------------------------------------------------------

NAME_S ==
    <<"s", "l", "e", "e", "p", "i", "n", "g">>

NAME_D ==
    <<"u", "n", "i", "n", "t", "e", "r", "r", "u", "p", "t", "i", "b", "l",
      "e", " ", "(", "d", "i", "s", "k", ")", " ", "s", "l", "e", "e", "p">>

NAME_R ==
    <<"r", "u", "n", "n", "i", "n", "g">>

NAME_I ==
    <<"i", "d", "l", "e">>

NAME_T ==
    <<"s", "t", "o", "p", "p", "e", "d">>

NAME_t_lower ==
    <<"t", "r", "a", "c", "i", "n", "g", " ", "s", "t", "o", "p">>

NAME_X ==
    <<"d", "e", "a", "d">>

NAME_Z ==
    <<"z", "o", "m", "b", "i", "e">>

NAME_P ==
    <<"p", "a", "r", "k", "e", "d">>

UNKNOWN ==
    <<"u", "n", "k", "n", "o", "w", "n">>

LETTER_TO_NAME ==
    [c \in {"S", "D", "R", "I", "T", "t", "X", "Z", "P"} |->
        CASE c = "S" -> NAME_S
           [] c = "D" -> NAME_D
           [] c = "R" -> NAME_R
           [] c = "I" -> NAME_I
           [] c = "T" -> NAME_T
           [] c = "t" -> NAME_t_lower
           [] c = "X" -> NAME_X
           [] c = "Z" -> NAME_Z
           [] c = "P" -> NAME_P]

ARROW ==
    <<" ", "=", "=", ">">>

SEPARATOR ==
    <<" ", "-", " ">>

\* get_switch_prev_state with the text kshark_get_info(entry) gives.
get_switch_prev_state_at_marker(info_as_str) ==
    LET start == Find(info_as_str, ARROW, 0)
    IN  Substr(info_as_str, start, 1)

get_switch_prev_state(info_as_str) ==
    LET start == Find(info_as_str, ARROW, 0)
    IN  Substr(info_as_str, start - 1, 1)

\* get_longer_prev_state: the exception of substr passes through.
get_longer_prev_state(info_as_str) ==
    LET ps_base == get_switch_prev_state(info_as_str)
    IN  IF ps_base = THROWN THEN THROWN
        ELSE LET final_string == IF ps_base[1] \in DOMAIN LETTER_TO_NAME
                                 THEN LETTER_TO_NAME[ps_base[1]] ELSE UNKNOWN
             IN  ps_base \o SEPARATOR \o final_string

NO_MAP_VAL ==
    <<"N", "o", " ", "s", "p", "e", "c", "i", "f", "i", "c", " ", "i", "n",
      "f", "o", " ", "f", "o", "r", " ", "e", "v", "e", "n", "t", ".">>

TASK_WAS_IN_STATE ==
    <<"T", "a", "s", "k", " ", "w", "a", "s", " ", "i", "n", " ", "s", "t",
      "a", "t", "e", " ">>

TASK_HAS_WOKEN_UP ==
    <<"T", "a", "s", "k", " ", "h", "a", "s", " ", "w", "o", "k", "e", "n",
      " ", "u", "p", ".">>

\* Mutant of _add_sched_switch_prev_state_text: the event id of the entry
\* is not tested.
_add_sched_switch_prev_state_text_any_event(sd, event_entry, info_as_str) ==
    LET prev_state_base == get_switch_prev_state(info_as_str)
    IN  [calls |-> <<"get_switch_prev_state">>,
         text |-> IF prev_state_base = THROWN THEN THROWN
                  ELSE <<"(">> \o prev_state_base \o <<")">>]

\* _add_sched_switch_prev_state_text(event_entry, ...) for an entry of stream
\* sd whose info text is info_as_str: the calls it makes and the text of the
\* box it draws (empty when it draws none).
_add_sched_switch_prev_state_text(sd, event_entry, info_as_str) ==
    IF event_entry.event_id = ctx[sd].sswitch_event_id
    THEN LET prev_state_base == get_switch_prev_state(info_as_str)
         IN  [calls |-> <<"get_switch_prev_state">>,
              text |-> IF prev_state_base = THROWN THEN THROWN
                       ELSE <<"(">> \o prev_state_base \o <<")">>]
    ELSE [calls |-> <<>>, text |-> <<>>]

\* _get_specific_info(entry) for an entry of stream sd whose info text is
\* info_as_str.
_get_specific_info(sd, entry, info_as_str) ==
    LET entry_event_id == entry.event_id
        not_mapped == entry_event_id \notin
                          {ctx[sd].sswitch_event_id, ctx[sd].swaking_event_id}
        spec_info == IF not_mapped THEN NO_MAP_VAL
                     ELSE IF entry_event_id = ctx[sd].sswitch_event_id
                     THEN TASK_WAS_IN_STATE
                     ELSE TASK_HAS_WOKEN_UP
    IN  IF entry_event_id = ctx[sd].sswitch_event_id
        THEN LET longer == get_longer_prev_state(info_as_str)
             IN  IF longer = THROWN THEN THROWN
                 ELSE spec_info \o longer \o <<".">>
        ELSE spec_info

\* Info texts of event entries: a state code in front of the first " ==>",
\* after a task name or at the start of the text; a second marker; no
\* marker; the marker at the start.
StateCodes == DOMAIN LETTER_TO_NAME \cup {"x", "+", " ", ">"}

InfoHeads == {<<>>, <<"a", " ">>, <<"a", ":", "1", " ">>}

InfoTails == {<<>>, <<" ", "b">>, <<" ", "b">> \o ARROW \o <<"S">>}

InfoTexts ==
    {h \o <<c>> \o ARROW \o t : h \in InfoHeads, c \in StateCodes, t \in InfoTails}
    \cup {ARROW \o t : t \in InfoTails}
    \cup {<<>>, <<"a">>, <<"a", " ", "=", "=">>}

InitClick ==
    /\ globals = GlobalsInit
    /\ ctx = [sd \in Streams |->
                 IF sd = 0 THEN NewCtx(0, Container(<<>>)) ELSE NoCtx]
    /\ entries = [sd \in Streams |-> <<>>]
    /\ phase = [sd \in Streams |-> "closed"]
    /\ cfg = SlConfigInit
    /\ drawn = NoDraw
    /\ scans = [sd \in Streams |-> 0]
    /\ ui = NoUi
    /\ hover = NoHover
    /\ walk = NoWalk
    /\ info = NoInfo
    /\ window = WindowInit
    /\ hit = NoCall
    /\ pid_colors = NoColors
    /\ button = NoCall
    /\ evinfo \in InfoTexts
    /\ view = NoCall
    /\ line = NoText
    /\ parsed = NoCall

ClickFrame == <<globals, ctx, entries, phase, cfg, drawn, scans, ui, hover, walk,
                info, hit, pid_colors, button, evinfo, line, parsed, window>>

\* The "(S)" label under a marker asks for the state code
\* (_add_sched_switch_prev_state_text).
AskPrevState ==
    /\ view' = [fn |-> "get_switch_prev_state",
                result |-> get_switch_prev_state(evinfo)]
    /\ UNCHANGED ClickFrame

AskLongerPrevState ==
    /\ view' = [fn |-> "get_longer_prev_state",
                result |-> get_longer_prev_state(evinfo)]
    /\ UNCHANGED ClickFrame

\* _doubleClick asks for the specific info of the marker's event entry.
AskSpecificInfo(event_name) ==
    /\ view' = [fn |-> "_get_specific_info", event_name |-> event_name,
                result |-> _get_specific_info(0,
                    EntryOf(kshark_find_event_id(0, event_name), 1, 0, AllMasks, 1),
                    evinfo)]
    /\ UNCHANGED ClickFrame

\* SlTriangleButton::_draw adds the label of the previous state to the
\* button of the marker's event entry.
DrawPrevStateText(event_name) ==
    /\ view' = [fn |-> "_add_sched_switch_prev_state_text", event_name |-> event_name,
                result |-> _add_sched_switch_prev_state_text(0,
                    EntryOf(kshark_find_event_id(0, event_name), 1, 0, AllMasks, 1),
                    evinfo)]
    /\ UNCHANGED ClickFrame

NextClick ==
    \/ AskPrevState
    \/ AskLongerPrevState
    \/ \E n \in EventNames : AskSpecificInfo(n)
    \/ \E n \in EventNames : DrawPrevStateText(n)

SpecClick == InitClick /\ [][NextClick]_vars

\* The info text has " ==>" with at least one character in front of it.
HasStateCode(str) ==
    \E i \in 1..Len(str) :
        i + Len(ARROW) <= Len(str) /\ SubSeq(str, i + 1, i + Len(ARROW)) = ARROW

\* The character in front of the first " ==>" that has one in front.
FirstArrow(str) ==
    CHOOSE i \in 0..Len(str) :
        /\ i + Len(ARROW) <= Len(str)
        /\ SubSeq(str, i + 1, i + Len(ARROW)) = ARROW
        /\ \A j \in 0..(i - 1) : SubSeq(str, j + 1, j + Len(ARROW)) # ARROW

StateName(code) ==
    CASE code = "S" -> NAME_S
      [] code = "D" -> NAME_D
      [] code = "R" -> NAME_R
      [] code = "I" -> NAME_I
      [] code = "T" -> NAME_T
      [] code = "t" -> NAME_t_lower
      [] code = "X" -> NAME_X
      [] code = "Z" -> NAME_Z
      [] code = "P" -> NAME_P
      [] OTHER -> UNKNOWN

\* C18: for an info text whose first " ==>" has a character in front of it,
\* get_switch_prev_state returns that character and get_longer_prev_state
\* returns "<code> - <name>", the name being "unknown" for a code that is
\* not in the table.
C18_PrevStateCodeAndName ==
    (view # NoCall /\ HasStateCode(evinfo) /\ FirstArrow(evinfo) >= 1) =>
        LET code == evinfo[FirstArrow(evinfo)]
        IN  /\ view.fn = "get_switch_prev_state" => view.result = <<code>>
            /\ view.fn = "get_longer_prev_state" =>
                   view.result = <<code>> \o SEPARATOR \o StateName(code)

\* The composed accessor was asked for a text with two markers whose first
\* code is not in the table.
C18_Witness ==
    /\ view # NoCall
    /\ view.fn = "get_longer_prev_state"
    /\ HasStateCode(evinfo)
    /\ FirstArrow(evinfo) >= 1
    /\ evinfo[FirstArrow(evinfo)] = "+"
    /\ Find(evinfo, ARROW, FirstArrow(evinfo) + 1) # NPOS
    /\ view.result = <<"+">> \o SEPARATOR \o UNKNOWN

\* ---------------------------------------------------------------------
\* The detailed view of a double click in the stream life cycle (Spec).
\* ---------------------------------------------------------------------

\* C19: a double click on a marker shows the info text of the marker's
\* kernel stack entry, or the message "ERROR: No info field found!" when
\* the marker has no kernel stack entry (outcome "no kernel stack").
C19_StackTextOrErrorMessage ==
    (ui # NoUi /\ ui.op = "doubleClick" /\ drawn # NoDraw) =>
        ui.outcome =
            IF ui.marker.kstack_entry \in 1..Len(entries[drawn.sd])
            THEN "stack text" ELSE "no kernel stack"

\* ---------------------------------------------------------------------
\* The last label of the preview (SpecPreview).
\* ---------------------------------------------------------------------

\* C20: the last label of the preview is "(End of stack)" when at most
\* three frames are left after the skip, so that the preview lists all of
\* them, and "..." when more than three are left.
C20_EndOfStackOrMore ==
    (hover # NoHover /\ hover.top_three_items # THROWN) =>
        hover.last_item = IF PvLeft <= 3 THEN "(End of stack)" ELSE "..."

\* ---------------------------------------------------------------------
\* Calls for a stream whose context lookup fails (__get_context returns
\* null): get_kstack_entry, draw_stacklook_objects, _get_specific_info,
\* _add_sched_switch_prev_state_text.
\* ---------------------------------------------------------------------

MaxLookup == 2

\* What a call can end in.  Reading a member through the null context
\* pointer is undefined: the process stops, or the call goes on with
\* whatever it read.
RETURNS == "returns"

NullContextRead == {"crash", "goes on with garbage"}

\* draw_stacklook_objects: ctx = __get_context(sd) is not tested before
\* plugin_data = ctx->collected_events (Stacklook.cpp:346, 365), which is
\* reached after the two early returns.
draw_outcomes(sd, val, draw_action, tot_count) ==
    IF ~(draw_action = KSHARK_CPU_DRAW \/ draw_action = KSHARK_TASK_DRAW)
    THEN {RETURNS}
    ELSE IF too_many_bins(tot_count) THEN {RETURNS}
    ELSE IF ctx[sd] = NoCtx THEN NullContextRead
    ELSE {RETURNS}

\* _get_specific_info and _add_sched_switch_prev_state_text: ctx =
\* __get_context(entry->stream_id) is not tested before ctx->sswitch_event_id
\* is read (SlButton.cpp:49-50, 91-93).
entry_ctx_outcomes(sd, entry) ==
    IF ctx[sd] = NoCtx THEN NullContextRead ELSE {RETURNS}

LookupArrays == UNION {[1..n -> LoadedEntries(0)] : n \in 0..MaxLookup}

\* Stream 0 is attached (without container) or not; stream 1 never is.
InitLookup ==
    /\ globals = GlobalsInit
    /\ entries \in {[sd \in Streams |-> IF sd = 0 THEN a ELSE <<>>] : a \in LookupArrays}
    /\ ctx \in {[sd \in Streams |-> NoCtx],
                [sd \in Streams |-> IF sd = 0 THEN NewCtx(0, NoContainer) ELSE NoCtx]}
    /\ phase = [sd \in Streams |-> "closed"]
    /\ cfg = SlConfigInit
    /\ drawn = NoDraw
    /\ scans = [sd \in Streams |-> 0]
    /\ ui = NoUi
    /\ hover = NoHover
    /\ walk = NoWalk
    /\ info = NoInfo
    /\ CallsInit

LookupFrame == <<globals, ctx, entries, phase, cfg, drawn, scans, ui, hover, walk,
                 info, hit, pid_colors, button, evinfo, line, parsed, window>>

\* get_kstack_entry(kstack_owner) for an entry of stream 0.
LkWalk(kstack_owner) ==
    /\ view' = [op |-> "get_kstack_entry", sd |-> 0, outcome |-> RETURNS,
                result |-> get_kstack_entry(0, kstack_owner)]
    /\ UNCHANGED LookupFrame

\* draw_stacklook_objects for stream sd.
LkDraw(sd, val, draw_action, tot_count, outcome) ==
    /\ outcome \in draw_outcomes(sd, val, draw_action, tot_count)
    /\ view' = [op |-> "draw_stacklook_objects", sd |-> sd, outcome |-> outcome,
                result |-> IF outcome = RETURNS
                           THEN IF ctx[sd] = NoCtx THEN {}
                                ELSE draw_stacklook_objects(sd, val, draw_action,
                                                            tot_count).markers
                           ELSE {}]
    /\ UNCHANGED LookupFrame

\* _get_specific_info(entry) and _add_sched_switch_prev_state_text(entry,
\* ...) for an entry of stream 0.
LkEntry(op, entry, outcome) ==
    /\ outcome \in entry_ctx_outcomes(0, entry)
    /\ view' = [op |-> op, sd |-> 0, outcome |-> outcome, result |-> {}]
    /\ UNCHANGED LookupFrame

\* _get_task_color(task_pid, default_color) with the empty colour table.
LkColor(task_pid) ==
    /\ view' = [op |-> "_get_task_color", sd |-> 0, outcome |-> RETURNS,
                result |-> _get_task_color(task_pid, get_default_btn_col)]
    /\ UNCHANGED LookupFrame

NextLookup ==
    \/ \E kstack_owner \in 1..Len(entries[0]) : LkWalk(kstack_owner)
    \/ \E sd \in Streams, val \in DrawVals, a \in DrawActions, n \in BinCounts,
          o \in {RETURNS} \cup NullContextRead : LkDraw(sd, val, a, n, o)
    \/ \E op \in {"_get_specific_info", "_add_sched_switch_prev_state_text"},
          entry \in 1..Len(entries[0]), o \in {RETURNS} \cup NullContextRead :
           LkEntry(op, entry, o)
    \/ \E task_pid \in Pids : LkColor(task_pid)

SpecLookup == InitLookup /\ [][NextLookup]_vars

\* C21: a call for a stream without context returns normally:
\* get_kstack_entry returns null, draw_stacklook_objects makes no button,
\* the helpers of a button return; a colour the table does not have is the
\* default colour.
C21_FailedLookupIsQuiet ==
    view # NoCall =>
        /\ ctx[view.sd] = NoCtx =>
               /\ view.outcome = RETURNS
               /\ view.op = "get_kstack_entry" => view.result = NULLPTR
               /\ view.op = "draw_stacklook_objects" => view.result = {}
        /\ view.op = "_get_task_color" => view.result = cfg._default_btn_col

\* ---------------------------------------------------------------------
\* The configuration window (SlConfig.cpp:254-310, 443-510;
\* Stacklook.cpp:253-256).
\* ---------------------------------------------------------------------

\* What the user sets the controls to.
HistoEdits == {1, HISTO_LIMIT_DEFAULT}

ColorEdits == {WHITE, <<128, 128, 128>>}

DepthEdits == {0, DEPTH_DEFAULT, DEPTH_MAX}

InitConfig ==
    /\ globals = GlobalsInit
    /\ ctx = [sd \in Streams |-> NoCtx]
    /\ entries = [sd \in Streams |-> <<>>]
    /\ phase = [sd \in Streams |-> "closed"]
    /\ cfg = SlConfigInit
    /\ drawn = NoDraw
    /\ scans = [sd \in Streams |-> 0]
    /\ ui = NoUi
    /\ hover = NoHover
    /\ walk = NoWalk
    /\ info = NoInfo
    /\ CallsInit

ConfigFrame == <<globals, ctx, entries, phase, drawn, scans, ui, hover, walk, info,
                 hit, pid_colors, button, evinfo, line, parsed>>

\* config_show: the menu entry loads the configuration into the controls
\* and shows the window (also when it is shown already).
CwShow ==
    /\ window' = [shown |-> TRUE, last |-> "show", edited |-> FALSE,
                  controls |-> load_cfg_values]
    /\ UNCHANGED <<cfg, view, ConfigFrame>>

\* The user changes controls of the shown window.
CwEdit(histo_limit, def_btn_col, task_col_btn, depth, allowed) ==
    /\ window.shown
    /\ LET edit == [window.controls EXCEPT !.histo_limit = histo_limit,
                                           !.def_btn_col = def_btn_col,
                                           !.task_col_btn = task_col_btn,
                                           !.rows[1].depth = depth,
                                           !.rows[2].allowed = allowed]
       IN  /\ edit # window.controls
           /\ window' = [window EXCEPT !.last = "edit", !.edited = TRUE,
                                       !.controls = edit]
    /\ UNCHANGED <<cfg, view, ConfigFrame>>

\* The Close button: QWidget::close.
CwClose ==
    /\ window.shown
    /\ window' = [window EXCEPT !.shown = FALSE, !.last = "close"]
    /\ UNCHANGED <<cfg, view, ConfigFrame>>

\* The Apply button: update_cfg, then close.  view keeps the values of the
\* controls that were applied.
CwApply ==
    /\ window.shown
    /\ cfg' = update_cfg(window.controls)
    /\ window' = [window EXCEPT !.shown = FALSE, !.last = "apply"]
    /\ view' = [applied |-> window.controls]
    /\ UNCHANGED ConfigFrame

NextConfig ==
    \/ CwShow
    \/ \E l \in HistoEdits, c \in ColorEdits, t \in BOOLEAN, d \in DepthEdits,
          a \in BOOLEAN : CwEdit(l, c, t, d, a)
    \/ CwClose
    \/ CwApply

SpecConfig == InitConfig /\ [][NextConfig]_vars

\* The (allowed, depth) pair last stored for a configured name: the one of
\* the last Apply, or the initial one.
StoredMeta(n) ==
    IF view = NoCall THEN [allowed |-> TRUE, depth |-> 3]
    ELSE LET row == CHOOSE r \in {view.applied.rows[i] : i \in 1..Len(view.applied.rows)} :
                        r.name = n
         IN  [allowed |-> row.allowed, depth |-> row.depth]

\* An entry of stream 0 of the event named n.
EntryNamed(n) ==
    EntryOf(kshark_find_event_id(0, n), 1, 0, AllMasks, 1)

\* C22: the configured names are sched/sched_switch and sched/sched_waking
\* at all times; for them the lookups return the stored pair, for every
\* other name is_event_allowed is false and the skip depth is 0.
C22_PolicyLookup ==
    /\ DOMAIN cfg._events_meta = {"sched/sched_switch", "sched/sched_waking"}
    /\ \A n \in EventNames :
        IF n \in {"sched/sched_switch", "sched/sched_waking"}
        THEN /\ is_event_allowed(0, EntryNamed(n)) = StoredMeta(n).allowed
             /\ get_stack_offset(n) = StoredMeta(n).depth
        ELSE /\ ~is_event_allowed(0, EntryNamed(n))
             /\ get_stack_offset(n) = 0

\* Both rows were changed by an Apply: sched_switch has the largest depth,
\* sched_waking is not allowed.
C22_Witness ==
    /\ view # NoCall
    /\ window.last = "apply"
    /\ get_stack_offset(SWITCH_NAME) = DEPTH_MAX
    /\ ~is_event_allowed(0, EntryNamed(WAKING_NAME))
    /\ is_event_allowed(0, EntryNamed(SWITCH_NAME))
    /\ get_stack_offset(OTHER_NAME) = 0

\* C30: the configuration changes in steps of Apply only, and an Apply in
\* a window whose controls were not edited since it was shown does not
\* change it.
C30_OnlyApplyChanges ==
    [][/\ window'.last # "apply" => cfg' = cfg
       /\ (window'.last = "apply" /\ ~window.edited) => cfg' = cfg]_vars

\* After changes were applied, the window was shown again and Apply was
\* pressed without an edit.
C30_Witness ==
    /\ window.last = "apply"
    /\ ~window.edited
    /\ cfg # SlConfigInit

\* ---------------------------------------------------------------------
\* From the loaded records to the buttons (Spec).
\* ---------------------------------------------------------------------

\* The stream of the last draw call holds a sched_switch entry followed by
\* a kernel stack entry of the same pid, and nothing else; sched_switch is
\* allowed and the entry is in the focus of the call.
SwitchThenStack ==
    /\ DrawnPastGates
    /\ Len(entries[drawn.sd]) = 2
    /\ entries[drawn.sd][1].event_id = ctx[drawn.sd].sswitch_event_id
    /\ entries[drawn.sd][2].event_id = ctx[drawn.sd].kstack_event_id
    /\ entries[drawn.sd][2].pid = entries[drawn.sd][1].pid
    /\ entries[drawn.sd][2].cpu = entries[drawn.sd][1].cpu
    /\ {EVENT_VIEW, GRAPH_VIEW} \subseteq entries[drawn.sd][1].visible
    /\ cfg._events_meta[SWITCH_NAME].allowed
    /\ IF drawn.draw_action = KSHARK_TASK_DRAW
       THEN entries[drawn.sd][1].pid = drawn.val
       ELSE entries[drawn.sd][1].cpu = drawn.val

\* C23: for a sched_switch entry directly followed by its kernel stack
\* entry, get_kstack_entry returns the second entry and a draw call within
\* the bin limit makes exactly one button, whose kernel stack entry is the
\* second entry.
C23_OneButtonForSwitchAndStack ==
    SwitchThenStack =>
        /\ get_kstack_entry(drawn.sd, 1) = 2
        /\ check_func(drawn.sd, ctx[drawn.sd], drawn.draw_action, drawn.val,
                      [entry |-> 1, field |-> 2])
        /\ drawn.markers = {[event_entry |-> 1, kstack_entry |-> 2]}

\* The case in a task plot, in the draw call that ran the search.
C23_Witness ==
    /\ SwitchThenStack
    /\ drawn.draw_action = KSHARK_TASK_DRAW
    /\ drawn.scanned
    /\ Cardinality(drawn.markers) = 1

\* ---------------------------------------------------------------------
\* Which kernel stack entry an owner gets (SpecWalk).
\* ---------------------------------------------------------------------

\* The sched_switch entries of stream 0: the candidates of the walk.
Candidates ==
    {i \in 1..Len(entries[0]) : entries[0][i].event_id = ctx[0].sswitch_event_id}

\* C24: get_kstack_entry returns an entry only if it is the kernel stack
\* entry directly following the owner in the next-chain, and no two distinct
\* candidates of a stream get the same kernel stack entry.
C24_StackDirectlyFollowsOwner ==
    (walk # NoWalk /\ Attached(0)) =>
        /\ walk.result # NULLPTR =>
               walk.result = NextEntry(entries[0], walk.owner)
        /\ \A i \in Candidates : \A j \in Candidates :
               (i # j /\ get_kstack_entry(0, i) # NULLPTR) =>
                   get_kstack_entry(0, i) # get_kstack_entry(0, j)

\* ---------------------------------------------------------------------
\* _get_stack_start_pos against the markers of the text (SpecText).
\* ---------------------------------------------------------------------

\* The positions of the occurrences of "=>" in a text.
MarkerPositions(s) ==
    {i \in 0..(Len(s) - 2) : s[i + 1] = "=" /\ s[i + 2] = ">"}

\* The position of the n-th occurrence of "=>", n from 1.
NthMarker(s, n) ==
    CHOOSE i \in MarkerPositions(s) :
        Cardinality({j \in MarkerPositions(s) : j <= i}) = n

\* What _get_stack_start_pos is to return when a found marker moves the
\* position on by step characters.
StartPosAfter(step) ==
    IF parsed.stack_offset = 0 THEN 0
    ELSE IF Cardinality(MarkerPositions(line)) >= parsed.stack_offset
         THEN NthMarker(line, parsed.stack_offset) + step
         ELSE NPOS

\* C25 as stated: for offset 0 the result is 0; with at least offset
\* markers it is the position of the first character after the two
\* characters of the offset-th marker; with fewer markers it is npos.
C25_PositionAfterMarker ==
    (parsed # NoCall /\ parsed.fn = "_get_stack_start_pos") =>
        parsed.result = StartPosAfter(2)

\* C25: for offset 0 the result is 0; with at least offset markers it is
\* the position of the second character (">") of the offset-th marker; with
\* fewer markers it is npos.
C25_PositionInsideMarker ==
    (parsed # NoCall /\ parsed.fn = "_get_stack_start_pos") =>
        parsed.result = StartPosAfter(1)

\* The call asked to pass two markers of a text that has them, the second
\* not at the start of the text.
C25_Witness ==
    /\ parsed # NoCall
    /\ parsed.fn = "_get_stack_start_pos"
    /\ parsed.stack_offset = 2
    /\ Cardinality(MarkerPositions(line)) >= 2
    /\ parsed.result = NthMarker(line, 2) + 1

\* ---------------------------------------------------------------------
\* Who asks for the previous state (SpecClick).
\* ---------------------------------------------------------------------

\* C26: drawing a button and double clicking it call get_switch_prev_state
\* only for an entry whose event id is the stream's sched_switch id: for an
\* entry of sched_waking or of any other event the label is not drawn and
\* nothing is called, and the specific info is the fixed text of the event.
C26_PrevStateOnlyForSwitch ==
    (/\ view # NoCall
     /\ view.fn \in {"_add_sched_switch_prev_state_text", "_get_specific_info"}
     /\ kshark_find_event_id(0, view.event_name) # ctx[0].sswitch_event_id) =>
        IF view.fn = "_get_specific_info"
        THEN view.result \in {NO_MAP_VAL, TASK_HAS_WOKEN_UP}
        ELSE view.result.calls = <<>> /\ view.result.text = <<>>

\* A button of a sched_waking entry was drawn whose info text has no state
\* code to read.
C26_Witness ==
    /\ view # NoCall
    /\ view.fn = "_add_sched_switch_prev_state_text"
    /\ view.event_name = WAKING_NAME
    /\ get_switch_prev_state(evinfo) = THROWN
    /\ view.result.calls = <<>>

\* ---------------------------------------------------------------------
\* The length of the walk and of the search (SpecWalk).
\* ---------------------------------------------------------------------

\* The entries from the owner to the end of its next-chain, the owner
\* included.
ChainLen(owner) ==
    Cardinality({j \in owner..Len(entries[0]) :
                    entries[0][j].cpu = entries[0][owner].cpu})

\* C27: the walk of get_kstack_entry makes at most as many turns as there
\* are entries from the owner to the end of its next-chain and returns null
\* when the chain ends without a match; search_for_kstacks makes exactly
\* one walk for each collected record, in the order of the records.
C27_WalkAndSearchBounded ==
    /\ (walk # NoWalk /\ Attached(0) /\ walk.owner # NULLPTR) =>
           /\ walk.steps <= ChainLen(walk.owner)
           /\ ChainMatches(walk.owner) = {} =>
                  walk.result = NULLPTR /\ walk.steps = ChainLen(walk.owner)
    /\ view # NoCall =>
           /\ Len(view.walks) = Len(WalkRecords(1))
           /\ \A i \in 1..Len(view.walks) :
                  /\ view.walks[i].owner = WalkRecords(1)[i].entry
                  /\ view.walks[i].steps <= ChainLen(view.walks[i].owner)

\* A search over two records: one walk ran to the end of the chain, one
\* stopped at a kernel stack entry before the end.
C27_Witness ==
    /\ view # NoCall
    /\ Len(view.walks) = 2
    /\ view.walks[1].steps < ChainLen(view.walks[1].owner)
    /\ view.walks[2].steps = ChainLen(view.walks[2].owner)
    /\ view.found

\* ---------------------------------------------------------------------
\* kstacks_exist after the search (Spec).
\* ---------------------------------------------------------------------

\* The records of the stream whose field holds a kernel stack entry.
Resolved(sd) ==
    {i \in 1..Len(Records(sd)) : Records(sd)[i].field # FIELD_INIT}

\* C28: once the search of a stream has run, kstacks_exist is true exactly
\* when a record of the stream holds a kernel stack entry, and it is false
\* for a stream without container or without records; a draw call of a
\* searched stream whose kstacks_exist is false makes no button.
C28_KstacksExistIffResolved ==
    \A sd \in Streams :
        Attached(sd) =>
            /\ ctx[sd].searched_for_kstacks =>
                   (ctx[sd].kstacks_exist <=> Resolved(sd) # {})
            /\ Len(Records(sd)) = 0 => ~ctx[sd].kstacks_exist
            /\ (/\ drawn # NoDraw
                /\ drawn.sd = sd
                /\ ctx[sd].searched_for_kstacks
                /\ ~ctx[sd].kstacks_exist) => drawn.markers = {}

\* A draw call after the one that searched, of a stream whose two records
\* were both left without kernel stack entry.
C28_Witness ==
    /\ DrawnPastGates
    /\ ~drawn.scanned
    /\ ctx[drawn.sd].searched_for_kstacks
    /\ ~ctx[drawn.sd].kstacks_exist
    /\ Len(Records(drawn.sd)) = 2
    /\ drawn.markers = {}

\* ---------------------------------------------------------------------
\* Two streams with the plugin (SpecStreams).
\* ---------------------------------------------------------------------

\* The host attaches, loads, shows and closes both streams in any order;
\* the event ids of the two trace files differ.
NextStreams ==
    \/ \E sd \in Streams, ctx_ok \in BOOLEAN, dc_ok \in BOOLEAN :
           Attach(sd, ctx_ok, dc_ok)
    \/ \E sd \in Streams : \E e \in LoadedEntries(sd) : LoadRecord(sd, e)
    \/ \E sd \in Streams : FinishLoad(sd)
    \/ \E sd \in Streams : Detach(sd)

SpecStreams == Init /\ [][NextStreams]_vars

\* The entries of a stream whose event id is the sched_switch or the
\* sched_waking id stored in the context of the stream.
OwnCandidates(sd) ==
    {j \in 1..Len(entries[sd]) :
        entries[sd][j].event_id \in {ctx[sd].sswitch_event_id,
                                     ctx[sd].swaking_event_id}}

\* C29: with several streams attached and loaded in any order, the records
\* of a stream are exactly its entries whose event id is the sched_switch
\* or sched_waking id stored in the context of that stream, whatever the
\* ids of the other streams.
C29_CollectedByOwnIds ==
    \A sd \in Streams :
        HasContainer(sd) =>
            /\ {Records(sd)[i].entry : i \in 1..Len(Records(sd))} = OwnCandidates(sd)
            /\ Len(Records(sd)) = Cardinality(OwnCandidates(sd))

====
